---- MODULE Spec2Model ----
(***************************************************************************)
(* Verification model of the FoodAI backend core (api/core):              *)
(*   - GeminiService.stream : worker thread + Queue + polling consumer     *)
(*   - SearchService._merge / hybrid_search : fan-out, join, merge         *)
(*   - QueryRouter.route    : heavy / complex / simple classification      *)
(* Each component has its own specification (SpecStream, SpecMerge,        *)
(* SpecSearch, SpecRouter); the variables of the other components stay at  *)
(* their idle values.                                                      *)
(***************************************************************************)
EXTENDS Integers, Sequences, FiniteSets, TLC

VARIABLES
    \* ---- GeminiService.stream ----
    s_tier,      \* the tier argument of stream()
    cpc,         \* position of the consumer (the async generator body)
    wpc,         \* position of the worker thread _worker
    queue,       \* the queue.Queue between worker and consumer
    yielded,     \* fragments the generator has yielded so far, in order
    enq,         \* history: every item the worker has put on the queue
    nchunks,     \* history: chunks the provider iterator has delivered
    raised,      \* history: the provider call raised inside the worker
    snap,        \* history: items enqueued at the moment the provider raised
    \* ---- SearchService._merge (pure function) ----
    m_priority, m_secondary, m_top_k,   \* the arguments
    m_pc,        \* "call" before, "returned" after the call
    m_out,       \* the list returned
    \* ---- SearchService.hybrid_search ----
    h_op,        \* the public method called
    h_city, h_query, h_top_k, h_food_id,   \* its arguments
    h_pc,        \* position of the awaiting caller
    h_result,    \* value returned to the caller
    h_error,     \* exception raised to the caller
    sem_pc, txt_pc,      \* positions of the two sub-search coroutines
    sem_k, txt_k,        \* result count each was asked for
    sem_res, txt_res,    \* their results (a list, or the exception raised)
    db,          \* the city's food table: id -> row
    calls,       \* history: blocking calls handed to the executor, in order
    \* ---- QueryRouter.route ----
    r_query, r_has_location, r_decision,
    \* ---- GeminiService.chat / _build_params ----
    g_src,       \* who made the decision: route, the fallback, or a caller
    g_op,        \* "chat" or "stream"
    g_query, g_has_location,    \* the arguments of route
    g_tier, g_max_tokens,       \* tier and budget passed to chat / stream
    g_pc,        \* position of the call
    g_cfg_tokens,    \* max_output_tokens of the GenerationConfig built
    g_exc,       \* type name of the exception the provider raised
    g_reply,     \* what chat returned
    \* ---- PromptBuilder.build_history ----
    p_raw,       \* the history of the request
    p_pc,        \* "call" before, "returned" after the call
    p_out,       \* the list handed to the provider
    \* ---- ChatHandler (POST /chat, WS /ws/chat) ----
    o_mode,      \* "rest" or "ws"
    o_pc,        \* position of the handler
    o_cur,       \* number of messages read so far (index of the current one)
    o_text, o_addr,  \* current message and whether it has a user_address
    o_class,     \* what route returned for the current message
    o_decision,  \* the decision in use (the fallback after a template miss)
    o_routes,    \* history: calls of route for the current message
    o_tmpl,      \* history: outcome of the template for the current message
    o_gen,       \* history: calls of GeminiService.chat / stream
    o_chunks,    \* chunks of the current stream sent so far
    o_frames,    \* history: frames sent on the WebSocket, in order
    o_resp,      \* the ChatResponse of POST /chat
    o_error,     \* the exception that ended the request / session
    o_completed, \* history: messages processed to completion
    o_searches,  \* history: calls of hybrid_search, by message
    \* ---- POST /food/click : increment_click on worker threads ----
    k_mode,      \* "seq": one call after the other, "conc": concurrently
    k_args,      \* caller -> [city, id]
    k_pc,        \* caller -> position
    k_read,      \* caller -> so_lan_click read by session.get
    k_lock,      \* caller holding the write lock of the database, or 0
    k_db,        \* committed table: id -> so_lan_click
    k_out,       \* caller -> response of record_click
    k_log,       \* history: successful commits, in order
    \* ---- SearchService._run_faiss ----
    sem_ind,     \* history: the positions index.search returned
    \* ---- SimpleQueryHandler.parse_intent ----
    i_query,     \* the argument
    i_pc,        \* "call" before, "returned" after the call
    i_result,    \* the tuple (intent, keyword, second keyword) returned
    \* ---- SimpleQueryHandler.handle ----
    t_query,     \* the argument
    t_pc,        \* position of the call
    t_intent,    \* what parse_intent returned
    t_calls,     \* the calls of the search callback, with their outcome
    t_out,       \* what handle returned, or the exception it raised
    \* ---- engine / session factory / index caches, by thread ----
    x_op,        \* thread -> "engine" (get_session_factory) or "faiss"
    x_pc,        \* thread -> position
    x_left,      \* thread -> accesses still to make
    x_engines,   \* _engines[city]: the cached engine, 0 if absent
    x_factories, \* _session_factories[city], 0 if absent
    x_faiss,     \* _faiss_cache[city], 0 if absent
    x_mine,      \* thread -> the instance it created and has yet to store
    x_created,   \* history: instances created, by kind
    x_ret        \* history: thread -> instances its accesses returned

streamVars == <<s_tier, cpc, wpc, queue, yielded, enq, nchunks, raised, snap>>
mergeVars  == <<m_priority, m_secondary, m_top_k, m_pc, m_out>>
searchVars == <<h_op, h_city, h_query, h_top_k, h_food_id, h_pc, h_result,
                h_error, sem_pc, txt_pc, sem_k, txt_k, sem_res, txt_res, db,
                calls>>
routerVars == <<r_query, r_has_location, r_decision>>
geminiVars == <<g_src, g_op, g_query, g_has_location, g_tier, g_max_tokens,
                g_pc, g_cfg_tokens, g_exc, g_reply>>
historyVars == <<p_raw, p_pc, p_out>>
chatVars   == <<o_mode, o_pc, o_cur, o_text, o_addr, o_class, o_decision,
                o_routes, o_tmpl, o_gen, o_chunks, o_frames, o_resp, o_error,
                o_completed, o_searches>>
clickVars  == <<k_mode, k_args, k_pc, k_read, k_lock, k_db, k_out, k_log>>
baseVars == <<streamVars, mergeVars, searchVars, routerVars>>
extVars  == <<geminiVars, historyVars, chatVars, clickVars>>
faissVars  == <<sem_ind>>
intentVars == <<i_query, i_pc, i_result>>
simpleVars == <<t_query, t_pc, t_intent, t_calls, t_out>>
cacheVars  == <<x_op, x_pc, x_left, x_engines, x_factories, x_faiss, x_mine,
                x_created, x_ret>>
lateVars == <<faissVars, intentVars, simpleVars, cacheVars>>
vars == <<baseVars, extVars, lateVars>>

None == "none"

(***************************************************************************)
(* Bounds                                                                  *)
(***************************************************************************)
MaxChunks == 3      \* chunks one provider iterator delivers at most
MaxLen    == 2      \* length of a source result list given to _merge
MaxId     == 3      \* record ids 1..MaxId
MaxTopK   == 3      \* largest top_k tried
MaxSegs   == 5      \* segments in a query text
MaxGeminiSegs == 2  \* segments in a message routed before a provider call
MaxTurns  == 8      \* entries in the history of a request
MaxCallers == 2     \* click requests in one behaviour
MaxMsgs   == 2      \* messages read on one WebSocket session
MaxThreads == 2     \* executor threads that use the caches
MaxAccesses == 2    \* accesses of a cache by one thread
MaxWords  == 4      \* words in a query given to parse_intent
MaxItems  == 6      \* records in a result set of one lookup
MaxCmpItems == 2    \* records in a result set of a comparison lookup

(***************************************************************************)
(* Generic helpers                                                         *)
(***************************************************************************)
Min(a, b) == IF a <= b THEN a ELSE b

IsPrefix(s, t) == Len(s) <= Len(t) /\ SubSeq(t, 1, Len(s)) = s

SeqsUpTo(S, n) == UNION {[1..k -> S] : k \in 0..n}

\* Python's list slice xs[:k] (a negative k counts from the end).
SliceTo(xs, k) ==
    IF k >= 0 THEN SubSeq(xs, 1, Min(k, Len(xs)))
    ELSE SubSeq(xs, 1, IF Len(xs) + k > 0 THEN Len(xs) + k ELSE 0)

(***************************************************************************)
(* Idle values of each component                                           *)
(***************************************************************************)
StreamIdle ==
    /\ s_tier = None /\ cpc = "off" /\ wpc = "off" /\ queue = <<>>
    /\ yielded = <<>> /\ enq = <<>> /\ nchunks = 0 /\ raised = FALSE
    /\ snap = <<>>

MergeIdle ==
    /\ m_priority = <<>> /\ m_secondary = <<>> /\ m_top_k = 0
    /\ m_pc = "off" /\ m_out = <<>>

SearchIdle ==
    /\ h_op = None /\ h_city = None /\ h_query = None /\ h_top_k = 0
    /\ h_food_id = 0 /\ h_pc = "off" /\ h_result = None /\ h_error = None
    /\ sem_pc = "off" /\ txt_pc = "off" /\ sem_k = None /\ txt_k = None
    /\ sem_res = None /\ txt_res = None /\ db = <<>> /\ calls = <<>>

RouterIdle ==
    /\ r_query = <<>> /\ r_has_location = FALSE /\ r_decision = None

GeminiIdle ==
    /\ g_src = None /\ g_op = None /\ g_query = <<>> /\ g_has_location = FALSE
    /\ g_tier = None /\ g_max_tokens = 0 /\ g_pc = "off" /\ g_cfg_tokens = 0
    /\ g_exc = None /\ g_reply = None

HistoryIdle ==
    /\ p_raw = <<>> /\ p_pc = "off" /\ p_out = <<>>

ChatIdle ==
    /\ o_mode = None /\ o_pc = "off" /\ o_cur = 0 /\ o_text = <<>>
    /\ o_addr = FALSE /\ o_class = None /\ o_decision = None /\ o_routes = 0
    /\ o_tmpl = None /\ o_gen = <<>> /\ o_chunks = 0 /\ o_frames = <<>>
    /\ o_resp = None /\ o_error = None /\ o_completed = 0
    /\ o_searches = <<>>

ClickIdle ==
    /\ k_mode = None /\ k_args = <<>> /\ k_pc = <<>> /\ k_read = <<>>
    /\ k_lock = 0 /\ k_db = <<>> /\ k_out = <<>> /\ k_log = <<>>

BaseIdle == StreamIdle /\ MergeIdle /\ SearchIdle /\ RouterIdle
ExtIdle  == GeminiIdle /\ HistoryIdle /\ ChatIdle /\ ClickIdle

FaissIdle == sem_ind = <<>>

IntentIdle ==
    /\ i_query = <<>> /\ i_pc = "off" /\ i_result = None

SimpleIdle ==
    /\ t_query = <<>> /\ t_pc = "off" /\ t_intent = None /\ t_calls = <<>>
    /\ t_out = None

CacheIdle ==
    /\ x_op = <<>> /\ x_pc = <<>> /\ x_left = <<>> /\ x_engines = 0
    /\ x_factories = 0 /\ x_faiss = 0 /\ x_mine = <<>> /\ x_created = <<>>
    /\ x_ret = <<>>

LateIdle == FaissIdle /\ IntentIdle /\ SimpleIdle /\ CacheIdle

(***************************************************************************)
(* core/gemini.py : GeminiService.stream                                   *)
(***************************************************************************)
ModelTier == {"local", "gemini-flash", "gemini-pro"}

\* _MAX_TOKENS: the tiers that have an entry (a lookup of any other raises).
MAX_TOKENS_KEYS == {"gemini-flash", "gemini-pro"}

\* chunk.text values the provider can deliver; "" is an empty chunk.
ChunkTexts == {"", "a", "b"}

\* Items on the queue.  The consumer only tests `item is DONE`.
DONE == [kind |-> "done", text |-> ""]
Chunk(t) == [kind |-> "chunk", text |-> t]
ErrorFragment == [kind |-> "error", text |-> "[Loi]"]

InitStream ==
    /\ s_tier \in ModelTier
    /\ cpc = "params" /\ wpc = "off" /\ queue = <<>> /\ yielded = <<>>
    /\ enq = <<>> /\ nchunks = 0 /\ raised = FALSE /\ snap = <<>>
    /\ MergeIdle /\ SearchIdle /\ RouterIdle
    /\ ExtIdle
    /\ LateIdle

\* queue.put(item)
Put(item) == queue' = Append(queue, item) /\ enq' = Append(enq, item)

\* Lines 75-94: _build_params (raises KeyError for a tier without a ceiling),
\* then the worker thread is started.
StreamStart ==
    /\ cpc = "params"
    /\ IF s_tier \in MAX_TOKENS_KEYS
          THEN cpc' = "poll" /\ wpc' = "build"
          ELSE cpc' = "raised" /\ wpc' = wpc
    /\ UNCHANGED <<s_tier, queue, yielded, enq, nchunks, raised, snap>>
    /\ UNCHANGED <<mergeVars, searchVars, routerVars>>
    /\ UNCHANGED extVars
    /\ UNCHANGED lateVars

\* Lines 83-85: _build_model, start_chat, send_message(stream=True); any of
\* them may raise before the first chunk.
WorkerBuild ==
    /\ wpc = "build"
    /\ \E ok \in BOOLEAN :
          IF ok THEN wpc' = "iter" /\ UNCHANGED <<raised, snap>>
                ELSE wpc' = "except" /\ raised' = TRUE /\ snap' = enq
    /\ UNCHANGED <<s_tier, cpc, queue, yielded, enq, nchunks>>
    /\ UNCHANGED <<mergeVars, searchVars, routerVars>>
    /\ UNCHANGED extVars
    /\ UNCHANGED lateVars

\* Lines 85-87: the iterator delivers one chunk; non-empty text is enqueued.
WorkerChunk ==
    /\ wpc = "iter"
    /\ nchunks < MaxChunks
    /\ \E t \in ChunkTexts :
          IF t # "" THEN Put(Chunk(t)) ELSE UNCHANGED <<queue, enq>>
    /\ nchunks' = nchunks + 1
    /\ UNCHANGED <<s_tier, cpc, wpc, yielded, raised, snap>>
    /\ UNCHANGED <<mergeVars, searchVars, routerVars>>
    /\ UNCHANGED extVars
    /\ UNCHANGED lateVars

\* Line 85/86: the iterator (or chunk.text) raises mid-stream.
WorkerRaise ==
    /\ wpc = "iter"
    /\ wpc' = "except" /\ raised' = TRUE /\ snap' = enq
    /\ UNCHANGED <<s_tier, cpc, queue, yielded, enq, nchunks>>
    /\ UNCHANGED <<mergeVars, searchVars, routerVars>>
    /\ UNCHANGED extVars
    /\ UNCHANGED lateVars

\* Line 85: the iterator is exhausted, control falls to the finally clause.
WorkerEnd ==
    /\ wpc = "iter"
    /\ wpc' = "finally"
    /\ UNCHANGED <<s_tier, cpc, queue, yielded, enq, nchunks, raised, snap>>
    /\ UNCHANGED <<mergeVars, searchVars, routerVars>>
    /\ UNCHANGED extVars
    /\ UNCHANGED lateVars

\* Mutant: the except clause only logs and enqueues nothing.
WorkerExceptSilent ==
    /\ wpc = "except"
    /\ wpc' = "finally"
    /\ UNCHANGED <<s_tier, cpc, queue, yielded, enq, nchunks, raised, snap>>
    /\ UNCHANGED <<mergeVars, searchVars, routerVars>>
    /\ UNCHANGED extVars
    /\ UNCHANGED lateVars

\* Lines 88-90: except Exception: queue.put(error fragment)
WorkerExcept ==
    /\ wpc = "except"
    /\ Put(ErrorFragment)
    /\ wpc' = "finally"
    /\ UNCHANGED <<s_tier, cpc, yielded, nchunks, raised, snap>>
    /\ UNCHANGED <<mergeVars, searchVars, routerVars>>
    /\ UNCHANGED extVars
    /\ UNCHANGED lateVars

\* Mutant: the worker ends without the terminal marker.
WorkerFinallyNoDone ==
    /\ wpc = "finally"
    /\ wpc' = "done"
    /\ UNCHANGED <<s_tier, cpc, queue, yielded, enq, nchunks, raised, snap>>
    /\ UNCHANGED <<mergeVars, searchVars, routerVars>>
    /\ UNCHANGED extVars
    /\ UNCHANGED lateVars

\* Lines 91-92: finally: queue.put(DONE)
WorkerFinally ==
    /\ wpc = "finally"
    /\ Put(DONE)
    /\ wpc' = "done"
    /\ UNCHANGED <<s_tier, cpc, yielded, nchunks, raised, snap>>
    /\ UNCHANGED <<mergeVars, searchVars, routerVars>>
    /\ UNCHANGED extVars
    /\ UNCHANGED lateVars

\* Mutant: the consumer takes the newest item instead of the oldest.
ConsumerGetLifo ==
    /\ cpc = "poll"
    /\ queue # <<>>
    /\ LET item == queue[Len(queue)] IN
          /\ queue' = SubSeq(queue, 1, Len(queue) - 1)
          /\ IF item = DONE
                THEN cpc' = "done" /\ yielded' = yielded
                ELSE cpc' = "yield" /\ yielded' = Append(yielded, item)
    /\ UNCHANGED <<s_tier, wpc, enq, nchunks, raised, snap>>
    /\ UNCHANGED <<mergeVars, searchVars, routerVars>>
    /\ UNCHANGED extVars
    /\ UNCHANGED lateVars

\* Lines 97-100: queue.get_nowait() returned an item: break on DONE, else
\* yield it.
ConsumerGet ==
    /\ cpc = "poll"
    /\ queue # <<>>
    /\ LET item == Head(queue) IN
          /\ queue' = Tail(queue)
          /\ IF item = DONE
                THEN cpc' = "done" /\ yielded' = yielded
                ELSE cpc' = "yield" /\ yielded' = Append(yielded, item)
    /\ UNCHANGED <<s_tier, wpc, enq, nchunks, raised, snap>>
    /\ UNCHANGED <<mergeVars, searchVars, routerVars>>
    /\ UNCHANGED extVars
    /\ UNCHANGED lateVars

\* Lines 101-102: queue.get_nowait() raised Empty: sleep 50 ms.
ConsumerEmpty ==
    /\ cpc = "poll"
    /\ queue = <<>>
    /\ cpc' = "sleep"
    /\ UNCHANGED <<s_tier, wpc, queue, yielded, enq, nchunks, raised, snap>>
    /\ UNCHANGED <<mergeVars, searchVars, routerVars>>
    /\ UNCHANGED extVars
    /\ UNCHANGED lateVars

\* Line 102 returns / line 100 is resumed by the caller asking for the next
\* fragment: back to the top of the loop.
ConsumerResume ==
    /\ cpc \in {"sleep", "yield"}
    /\ cpc' = "poll"
    /\ UNCHANGED <<s_tier, wpc, queue, yielded, enq, nchunks, raised, snap>>
    /\ UNCHANGED <<mergeVars, searchVars, routerVars>>
    /\ UNCHANGED extVars
    /\ UNCHANGED lateVars

\* The caller stops iterating while the generator is suspended at the yield
\* (chat_handler: ws.send_text raised); the worker is not joined.
ConsumerClose ==
    /\ cpc = "yield"
    /\ cpc' = "closed"
    /\ UNCHANGED <<s_tier, wpc, queue, yielded, enq, nchunks, raised, snap>>
    /\ UNCHANGED <<mergeVars, searchVars, routerVars>>
    /\ UNCHANGED extVars
    /\ UNCHANGED lateVars

NextStream ==
    \/ StreamStart
    \/ WorkerBuild
    \/ WorkerChunk
    \/ WorkerRaise
    \/ WorkerEnd
    \/ WorkerExcept
    \/ WorkerFinally
    \/ ConsumerGet
    \/ ConsumerEmpty
    \/ ConsumerResume
    \/ ConsumerClose

SpecStream == InitStream /\ [][NextStream]_vars

\* The items of s that are not the terminal marker.
RECURSIVE NotDone(_)
NotDone(s) ==
    IF s = <<>> THEN <<>>
    ELSE IF Head(s) = DONE THEN NotDone(Tail(s))
    ELSE <<Head(s)>> \o NotDone(Tail(s))

\* C1: when the provider call raised after the worker had enqueued n chunks,
\* the consumer yields a prefix of (those n chunks, then the one error
\* fragment); once it has terminated on the marker it has yielded exactly
\* that sequence, and the generator never raises to its caller.
C1_ErrorAfterChunks ==
    raised =>
        /\ cpc # "raised"
        /\ \A i \in 1..Len(snap) : snap[i].kind = "chunk"
        /\ IsPrefix(yielded, snap \o <<ErrorFragment>>)
        /\ cpc = "done" => yielded = snap \o <<ErrorFragment>>

C1_Witness ==
    /\ raised /\ cpc = "done" /\ Len(snap) = 2
    /\ yielded = snap \o <<ErrorFragment>>

\* C2: the fragments yielded are always a prefix of the non-marker items the
\* worker enqueued (same order, each once, none of them empty); after the
\* marker has been dequeued they are all of them and the queue is empty, so
\* nothing is yielded afterwards.
C2_FifoExactlyOnce ==
    /\ IsPrefix(yielded, NotDone(enq))
    /\ \A i \in 1..Len(yielded) : yielded[i].text # ""
    /\ cpc = "done" => yielded = NotDone(enq) /\ queue = <<>> /\ wpc = "done"

C2_Witness ==
    /\ cpc = "done" /\ ~raised /\ Len(yielded) = 2 /\ nchunks = 3
    /\ yielded[1] # yielded[2]

(***************************************************************************)
(* core/search.py : SearchService._merge (pure function)                   *)
(***************************************************************************)
\* FoodItem, reduced to its id and one content field.
FoodItems == [id : 1..MaxId, ten_mon : {"x", "y"}]

\* Lines 316-321: the loop over [*priority, *secondary] with `seen`/`merged`.
RECURSIVE MergeLoop(_, _, _)
MergeLoop(items, seen, merged) ==
    IF items = <<>> THEN merged
    ELSE LET item == Head(items) IN
         IF item.id \notin seen
            THEN MergeLoop(Tail(items), seen \cup {item.id}, Append(merged, item))
            ELSE MergeLoop(Tail(items), seen, merged)

\* Mutant: the secondary list is iterated first.
MergeSecondaryFirst(priority, secondary, top_k) ==
    SliceTo(MergeLoop(secondary \o priority, {}, <<>>), top_k)

\* Mutant: no `seen` test, every item is appended.
MergeNoDedup(priority, secondary, top_k) ==
    SliceTo(priority \o secondary, top_k)

\* Lines 314-322: SearchService._merge
Merge(priority, secondary, top_k) ==
    SliceTo(MergeLoop(priority \o secondary, {}, <<>>), top_k)

InitMerge ==
    /\ m_priority \in SeqsUpTo(FoodItems, MaxLen)
    /\ m_secondary \in SeqsUpTo(FoodItems, MaxLen)
    /\ m_top_k \in 0..MaxTopK
    /\ m_pc = "call" /\ m_out = <<>>
    /\ StreamIdle /\ SearchIdle /\ RouterIdle
    /\ ExtIdle
    /\ LateIdle

CallMerge ==
    /\ m_pc = "call"
    /\ m_out' = Merge(m_priority, m_secondary, m_top_k)
    /\ m_pc' = "returned"
    /\ UNCHANGED <<m_priority, m_secondary, m_top_k>>
    /\ UNCHANGED <<streamVars, searchVars, routerVars>>
    /\ UNCHANGED extVars
    /\ UNCHANGED lateVars

NextMerge == CallMerge

SpecMerge == InitMerge /\ [][NextMerge]_vars

\* Positions of `all` holding the first occurrence of their id.
FirstOcc(all) ==
    {i \in 1..Len(all) : \A j \in 1..(i - 1) : all[j].id # all[i].id}

\* The n-th smallest element of a set of naturals.
NthOf(S, n) == CHOOSE i \in S : Cardinality({j \in S : j < i}) = n - 1

Ids(s) == {s[i].id : i \in 1..Len(s)}

\* C3: _merge returns priority ++ secondary restricted to the first
\* occurrence of each id, cut to top_k; on a duplicate id the priority
\* record is kept, kept priority records precede kept secondary-only
\* records, and the order inside each source is preserved.
C3_MergeIsFirstOccurrence ==
    m_pc = "returned" =>
        LET all == m_priority \o m_secondary
            F   == FirstOcc(all)
            n   == Min(m_top_k, Cardinality(F))
        IN  /\ m_out = [k \in 1..n |-> all[NthOf(F, k)]]
            /\ \A k \in 1..Len(m_out) :
                  m_out[k].id \in Ids(m_priority) =>
                      /\ \E i \in 1..Len(m_priority) : m_priority[i] = m_out[k]
                      /\ \A l \in 1..(k - 1) : m_out[l].id \in Ids(m_priority)

\* The case of the unit test: a secondary record repeats a priority id with
\* different content and is dropped, the other secondary record follows.
C3_Witness ==
    /\ m_pc = "returned"
    /\ Len(m_priority) = 1 /\ Len(m_secondary) = 2
    /\ m_secondary[1].id = m_priority[1].id
    /\ m_secondary[1] # m_priority[1]
    /\ m_secondary[2].id # m_priority[1].id
    /\ m_out = <<m_priority[1], m_secondary[2]>>

\* C4: whatever the source lists (repeated ids included) and top_k >= 0, the
\* merged list has no two records with one id and at most top_k records.
C4_NoDuplicateAtMostTopK ==
    m_pc = "returned" =>
        /\ Len(m_out) <= m_top_k
        /\ \A i, j \in 1..Len(m_out) : m_out[i].id = m_out[j].id => i = j

\* A source list repeats an id, the other source repeats it again, and the
\* result is cut by top_k.
C4_Witness ==
    /\ m_pc = "returned"
    /\ Len(m_priority) = 2 /\ m_priority[1].id = m_priority[2].id
    /\ Len(m_secondary) = 2 /\ m_secondary[1].id = m_priority[1].id
    /\ m_secondary[2].id # m_priority[1].id
    /\ m_top_k = 1 /\ Len(m_out) = 1

(***************************************************************************)
(* core/search.py : text_search, semantic_search, hybrid_search,           *)
(* increment_click                                                         *)
(***************************************************************************)
VALID_CITIES ==
    {"ha_noi", "ho_chi_minh", "da_nang", "hai_phong", "ha_long", "thanh_hoa"}

\* Cities and query texts tried as arguments.
CityArgs  == {"ha_noi", "da_nang", "paris"}
QueryArgs == {"pho", "bun"}

SearchOps == {"hybrid_search", "text_search", "semantic_search", "increment_click"}

UnknownCity   == "ValueError: Unknown city"
FoodNotFound  == "ValueError: Food not found"
StorageFailed == "Exception: collaborator failure"

\* A NULL so_lan_click (the column is nullable; stored counts are >= 0).
NullCount == -1

\* The food table of a city: ids 1..MaxId; so_lan_click may be NULL.
DbInit ==
    [i \in 1..MaxId |->
        [ten_mon |-> "x", so_lan_click |-> IF i = 1 THEN NullCount ELSE i]]

\* The vector index holds one position more than the table has rows.
NTotal == MaxId + 1

\* Lines 300-312: _orm_to_item
OrmToItem(i) == [id |-> i, ten_mon |-> db[i].ten_mon]

IsInjective(s) == \A i, j \in 1..Len(s) : s[i] = s[j] => i = j

\* Lines 184-195: what _fetch_by_name can return: rows of the table, each
\* once, at most `limit` of them (SQL LIMIT).
FetchByNameResults(limit) ==
    {[i \in 1..Len(s) |-> OrmToItem(s[i])] :
        s \in {t \in SeqsUpTo(DOMAIN db, Min(limit, MaxId)) : IsInjective(t)}}

\* Line 155: what index.search(vec, k) can return: k positions, -1 where the
\* index has no match, no position twice.
FaissIndices(k) ==
    {s \in [1..k -> -1..(NTotal - 1)] :
        \A i, j \in 1..k : (s[i] = s[j] /\ s[i] >= 0) => i = j}

\* Lines 175-182: _fetch_by_ids keeps the order of ids, skips absent ids.
RECURSIVE FetchByIds(_)
FetchByIds(ids) ==
    IF ids = <<>> THEN <<>>
    ELSE IF Head(ids) \in DOMAIN db
            THEN <<OrmToItem(Head(ids))>> \o FetchByIds(Tail(ids))
            ELSE FetchByIds(Tail(ids))

\* Mutant: the position is used as the id, without the offset.
RECURSIVE IdsOfIndicesNoOffset(_)
IdsOfIndicesNoOffset(ind) ==
    IF ind = <<>> THEN <<>>
    ELSE IF Head(ind) >= 0
            THEN <<Head(ind)>> \o IdsOfIndicesNoOffset(Tail(ind))
            ELSE IdsOfIndicesNoOffset(Tail(ind))

\* Line 156: ids = [int(i) + 1 for i in indices[0] if i >= 0]
RECURSIVE IdsOfIndices(_)
IdsOfIndices(ind) ==
    IF ind = <<>> THEN <<>>
    ELSE IF Head(ind) >= 0
            THEN <<Head(ind) + 1>> \o IdsOfIndices(Tail(ind))
            ELSE IdsOfIndices(Tail(ind))

\* Lines 150-157: _run_faiss for one outcome of index.search
RunFaiss(top_k, ind) == FetchByIds(IdsOfIndices(ind))

InitSearch ==
    /\ h_op \in SearchOps
    /\ h_city \in CityArgs
    /\ h_query \in QueryArgs
    /\ h_top_k \in 1..MaxTopK
    /\ h_food_id \in 1..(MaxId + 1)
    /\ h_pc = "start" /\ h_result = None /\ h_error = None
    /\ sem_pc = "off" /\ txt_pc = "off" /\ sem_k = None /\ txt_k = None
    /\ sem_res = None /\ txt_res = None
    /\ db = DbInit
    /\ calls = <<>>
    /\ StreamIdle /\ MergeIdle /\ RouterIdle
    /\ ExtIdle
    /\ LateIdle

Call(fn, k) == [fn |-> fn, city |-> h_city, query |-> h_query, k |-> k]

\* Mutant: the counts are given the other way round (text top_k, semantic
\* top_k // 2).
HybridStartSwapped ==
    /\ h_op = "hybrid_search" /\ h_pc = "start"
    /\ IF h_city \notin VALID_CITIES
          THEN /\ h_pc' = "raised" /\ h_error' = UnknownCity
               /\ UNCHANGED <<sem_pc, txt_pc, sem_k, txt_k>>
          ELSE /\ sem_pc' = "start" /\ sem_k' = h_top_k \div 2
               /\ txt_pc' = "start" /\ txt_k' = h_top_k
               /\ h_pc' = "await" /\ h_error' = h_error
    /\ UNCHANGED <<h_op, h_city, h_query, h_top_k, h_food_id, h_result,
                   sem_res, txt_res, db, calls>>
    /\ UNCHANGED <<streamVars, mergeVars, routerVars>>
    /\ UNCHANGED extVars
    /\ UNCHANGED lateVars

\* Lines 57-61: _validate_city, then gather(semantic_search(city, query,
\* top_k), text_search(city, query, top_k // 2)).
HybridStart ==
    /\ h_op = "hybrid_search" /\ h_pc = "start"
    /\ IF h_city \notin VALID_CITIES
          THEN /\ h_pc' = "raised" /\ h_error' = UnknownCity
               /\ UNCHANGED <<sem_pc, txt_pc, sem_k, txt_k>>
          ELSE /\ sem_pc' = "start" /\ sem_k' = h_top_k
               /\ txt_pc' = "start" /\ txt_k' = h_top_k \div 2
               /\ h_pc' = "await" /\ h_error' = h_error
    /\ UNCHANGED <<h_op, h_city, h_query, h_top_k, h_food_id, h_result,
                   sem_res, txt_res, db, calls>>
    /\ UNCHANGED <<streamVars, mergeVars, routerVars>>
    /\ UNCHANGED extVars
    /\ UNCHANGED lateVars

\* A caller awaits text_search(city, keyword, limit) or
\* semantic_search(city, query, top_k) directly (handlers/search_handler.py).
DirectStart ==
    /\ h_op \in {"text_search", "semantic_search"} /\ h_pc = "start"
    /\ IF h_op = "text_search"
          THEN txt_pc' = "start" /\ txt_k' = h_top_k /\ UNCHANGED <<sem_pc, sem_k>>
          ELSE sem_pc' = "start" /\ sem_k' = h_top_k /\ UNCHANGED <<txt_pc, txt_k>>
    /\ h_pc' = "await"
    /\ UNCHANGED <<h_op, h_city, h_query, h_top_k, h_food_id, h_result,
                   h_error, sem_res, txt_res, db, calls>>
    /\ UNCHANGED <<streamVars, mergeVars, routerVars>>
    /\ UNCHANGED extVars
    /\ UNCHANGED lateVars

\* Lines 50-53: semantic_search validates the city and hands _run_faiss to
\* the executor.
SemStart ==
    /\ sem_pc = "start"
    /\ IF h_city \notin VALID_CITIES
          THEN sem_pc' = "failed" /\ sem_res' = UnknownCity /\ calls' = calls
          ELSE /\ sem_pc' = "running" /\ sem_res' = sem_res
               /\ calls' = Append(calls, Call("_run_faiss", sem_k))
    /\ UNCHANGED <<h_op, h_city, h_query, h_top_k, h_food_id, h_pc, h_result,
                   h_error, txt_pc, sem_k, txt_k, txt_res, db>>
    /\ UNCHANGED <<streamVars, mergeVars, routerVars>>
    /\ UNCHANGED extVars
    /\ UNCHANGED lateVars

\* Lines 150-157: _run_faiss finishes on its executor thread.
SemReturn ==
    /\ sem_pc = "running"
    /\ \/ \E ind \in FaissIndices(Min(sem_k, NTotal)) :
             sem_pc' = "ok" /\ sem_res' = RunFaiss(sem_k, ind) /\ sem_ind' = ind
       \/ sem_pc' = "failed" /\ sem_res' = StorageFailed /\ UNCHANGED sem_ind
    /\ UNCHANGED <<h_op, h_city, h_query, h_top_k, h_food_id, h_pc, h_result,
                   h_error, txt_pc, sem_k, txt_k, txt_res, db, calls>>
    /\ UNCHANGED <<streamVars, mergeVars, routerVars>>
    /\ UNCHANGED extVars
    /\ UNCHANGED <<intentVars, simpleVars, cacheVars>>

\* Mutant: text_search hands the query to the executor without validating.
TxtStartUnchecked ==
    /\ txt_pc = "start"
    /\ h_op = "hybrid_search" => sem_pc # "start"
    /\ txt_pc' = "running"
    /\ calls' = Append(calls, Call("_fetch_by_name", txt_k))
    /\ UNCHANGED <<h_op, h_city, h_query, h_top_k, h_food_id, h_pc, h_result,
                   h_error, sem_pc, sem_k, txt_k, sem_res, txt_res, db>>
    /\ UNCHANGED <<streamVars, mergeVars, routerVars>>
    /\ UNCHANGED extVars
    /\ UNCHANGED lateVars

\* Lines 43-46: text_search validates the city and hands _fetch_by_name to
\* the executor.  Under gather the semantic task was created first and takes
\* its first step first.
TxtStart ==
    /\ txt_pc = "start"
    /\ h_op = "hybrid_search" => sem_pc # "start"
    /\ IF h_city \notin VALID_CITIES
          THEN txt_pc' = "failed" /\ txt_res' = UnknownCity /\ calls' = calls
          ELSE /\ txt_pc' = "running" /\ txt_res' = txt_res
               /\ calls' = Append(calls, Call("_fetch_by_name", txt_k))
    /\ UNCHANGED <<h_op, h_city, h_query, h_top_k, h_food_id, h_pc, h_result,
                   h_error, sem_pc, sem_k, txt_k, sem_res, db>>
    /\ UNCHANGED <<streamVars, mergeVars, routerVars>>
    /\ UNCHANGED extVars
    /\ UNCHANGED lateVars

\* Lines 184-195: _fetch_by_name finishes on its executor thread.
TxtReturn ==
    /\ txt_pc = "running"
    /\ \/ \E r \in FetchByNameResults(txt_k) :
             txt_pc' = "ok" /\ txt_res' = r
       \/ txt_pc' = "failed" /\ txt_res' = StorageFailed
    /\ UNCHANGED <<h_op, h_city, h_query, h_top_k, h_food_id, h_pc, h_result,
                   h_error, sem_pc, sem_k, txt_k, sem_res, db, calls>>
    /\ UNCHANGED <<streamVars, mergeVars, routerVars>>
    /\ UNCHANGED extVars
    /\ UNCHANGED lateVars

\* Mutant: the merge runs as soon as one search has a result, the other
\* counting as empty.
HybridMergePartial ==
    /\ h_op = "hybrid_search" /\ h_pc = "await"
    /\ sem_pc = "ok" \/ txt_pc = "ok"
    /\ h_result' = Merge(IF txt_pc = "ok" THEN txt_res ELSE <<>>,
                         IF sem_pc = "ok" THEN sem_res ELSE <<>>, h_top_k)
    /\ h_pc' = "returned"
    /\ UNCHANGED <<h_op, h_city, h_query, h_top_k, h_food_id, h_error, sem_pc,
                   txt_pc, sem_k, txt_k, sem_res, txt_res, db, calls>>
    /\ UNCHANGED <<streamVars, mergeVars, routerVars>>
    /\ UNCHANGED extVars
    /\ UNCHANGED lateVars

\* Lines 58-62: gather returns once both tasks are done; the results are
\* merged with the text results as priority.
HybridMerge ==
    /\ h_op = "hybrid_search" /\ h_pc = "await"
    /\ sem_pc = "ok" /\ txt_pc = "ok"
    /\ h_result' = Merge(txt_res, sem_res, h_top_k)
    /\ h_pc' = "returned"
    /\ UNCHANGED <<h_op, h_city, h_query, h_top_k, h_food_id, h_error, sem_pc,
                   txt_pc, sem_k, txt_k, sem_res, txt_res, db, calls>>
    /\ UNCHANGED <<streamVars, mergeVars, routerVars>>
    /\ UNCHANGED extVars
    /\ UNCHANGED lateVars

\* Line 58: gather re-raises the exception of a failed task; the other task
\* is not cancelled and runs on.
HybridFail ==
    /\ h_op = "hybrid_search" /\ h_pc = "await"
    /\ \/ sem_pc = "failed" /\ h_error' = sem_res
       \/ txt_pc = "failed" /\ h_error' = txt_res
    /\ h_pc' = "raised"
    /\ UNCHANGED <<h_op, h_city, h_query, h_top_k, h_food_id, h_result, sem_pc,
                   txt_pc, sem_k, txt_k, sem_res, txt_res, db, calls>>
    /\ UNCHANGED <<streamVars, mergeVars, routerVars>>
    /\ UNCHANGED extVars
    /\ UNCHANGED lateVars

\* Lines 44 / 51: the awaited executor call of a direct search is done.
DirectReturn ==
    /\ h_op \in {"text_search", "semantic_search"} /\ h_pc = "await"
    /\ LET pc  == IF h_op = "text_search" THEN txt_pc ELSE sem_pc
           res == IF h_op = "text_search" THEN txt_res ELSE sem_res
       IN  /\ pc \in {"ok", "failed"}
           /\ IF pc = "ok"
                 THEN h_pc' = "returned" /\ h_result' = res /\ h_error' = h_error
                 ELSE h_pc' = "raised" /\ h_error' = res /\ h_result' = h_result
    /\ UNCHANGED <<h_op, h_city, h_query, h_top_k, h_food_id, sem_pc, txt_pc,
                   sem_k, txt_k, sem_res, txt_res, db, calls>>
    /\ UNCHANGED <<streamVars, mergeVars, routerVars>>
    /\ UNCHANGED extVars
    /\ UNCHANGED lateVars

\* Lines 66-71: increment_click validates the city and hands _do_increment
\* to the executor.
ClickStart ==
    /\ h_op = "increment_click" /\ h_pc = "start"
    /\ IF h_city \notin VALID_CITIES
          THEN h_pc' = "raised" /\ h_error' = UnknownCity /\ calls' = calls
          ELSE /\ h_pc' = "await" /\ h_error' = h_error
               /\ calls' = Append(calls, Call("_do_increment", h_food_id))
    /\ UNCHANGED <<h_op, h_city, h_query, h_top_k, h_food_id, h_result, sem_pc,
                   txt_pc, sem_k, txt_k, sem_res, txt_res, db>>
    /\ UNCHANGED <<streamVars, mergeVars, routerVars>>
    /\ UNCHANGED extVars
    /\ UNCHANGED lateVars

\* Lines 73-80 with db/session.py 46-58: one _do_increment on its own
\* session, committed on success, rolled back on the raise.
ClickReturn ==
    /\ h_op = "increment_click" /\ h_pc = "await"
    /\ IF h_food_id \notin DOMAIN db
          THEN /\ h_pc' = "raised" /\ h_error' = FoodNotFound
               /\ UNCHANGED <<db, h_result>>
          ELSE LET old == db[h_food_id].so_lan_click
                   new == (IF old = NullCount THEN 0 ELSE old) + 1
               IN  /\ db' = [db EXCEPT ![h_food_id].so_lan_click = new]
                   /\ h_result' = new
                   /\ h_pc' = "returned" /\ h_error' = h_error
    /\ UNCHANGED <<h_op, h_city, h_query, h_top_k, h_food_id, sem_pc, txt_pc,
                   sem_k, txt_k, sem_res, txt_res, calls>>
    /\ UNCHANGED <<streamVars, mergeVars, routerVars>>
    /\ UNCHANGED extVars
    /\ UNCHANGED lateVars

NextSearch ==
    \/ HybridStart
    \/ DirectStart
    \/ SemStart
    \/ SemReturn
    \/ TxtStart
    \/ TxtReturn
    \/ HybridMerge
    \/ HybridFail
    \/ DirectReturn
    \/ ClickStart
    \/ ClickReturn

SpecSearch == InitSearch /\ [][NextSearch]_vars

CallsOf(fn) == {i \in 1..Len(calls) : calls[i].fn = fn}

\* C5 (as stated): hybrid_search asks the text search for top_k results and
\* the semantic search for top_k // 2, both for the same query.
C5_TextGetsTopK ==
    h_op = "hybrid_search" =>
        \A i \in 1..Len(calls) :
            /\ calls[i].query = h_query
            /\ calls[i].fn = "_fetch_by_name" => calls[i].k = h_top_k
            /\ calls[i].fn = "_run_faiss" => calls[i].k = h_top_k \div 2

\* C5 (amended): hybrid_search asks the semantic search for top_k results
\* and the text search for top_k // 2 (floor division), both for the same
\* query text and city.
C5_SemanticGetsTopK ==
    h_op = "hybrid_search" =>
        \A i \in 1..Len(calls) :
            /\ calls[i].query = h_query /\ calls[i].city = h_city
            /\ calls[i].fn = "_run_faiss" => calls[i].k = h_top_k
            /\ calls[i].fn = "_fetch_by_name" => calls[i].k = h_top_k \div 2

C5_Witness ==
    /\ h_op = "hybrid_search" /\ h_top_k = 3 /\ h_pc = "returned"
    /\ \E i \in CallsOf("_run_faiss") : calls[i].k = 3
    /\ \E i \in CallsOf("_fetch_by_name") : calls[i].k = 1

\* C6: hybrid_search returns a merged list only when both searches have
\* completed, and it is the merge of their two results; when either search
\* has failed nothing is returned.
C6_MergeAfterBoth ==
    h_op = "hybrid_search" =>
        /\ h_pc = "returned" =>
              /\ sem_pc = "ok" /\ txt_pc = "ok"
              /\ h_result = Merge(txt_res, sem_res, h_top_k)
        /\ (sem_pc = "failed" \/ txt_pc = "failed") => h_pc # "returned"

C6_Witness ==
    /\ h_op = "hybrid_search" /\ h_pc = "returned"
    /\ Len(txt_res) = 1 /\ Len(sem_res) = 3 /\ Len(h_result) = 3
    /\ txt_res[1] = sem_res[2]

\* C7: with a city outside VALID_CITIES every public search method raises
\* the unknown-city error and no blocking search / storage call is issued;
\* the table is untouched.
C7_InvalidCityNoCalls ==
    h_city \notin VALID_CITIES =>
        /\ calls = <<>>
        /\ db = DbInit
        /\ h_pc # "returned"
        /\ sem_pc \notin {"running", "ok"}
        /\ txt_pc \notin {"running", "ok"}
        /\ h_pc = "raised" => h_error = UnknownCity

C7_Witness ==
    /\ h_city = "paris" /\ h_op = "text_search"
    /\ h_pc = "raised" /\ h_error = UnknownCity /\ calls = <<>>

(***************************************************************************)
(* core/router.py : QueryRouter.route                                      *)
(*                                                                         *)
(* A query text is a sequence of segments, each a run of characters: one   *)
(* space, a run of the filler letter "x", or one of the words the patterns *)
(* of the router look for.  No pattern can match across the border of two  *)
(* of these segments except through the sequences spelled out below.       *)
(***************************************************************************)
SP      == [s |-> " ",       len |-> 1]
X100    == [s |-> "x*100",   len |-> 100]
X200    == [s |-> "x*200",   len |-> 200]
GAN     == [s |-> "gan",     len |-> 3]
TOI     == [s |-> "toi",     len |-> 3]
SO_SANH == [s |-> "so sanh", len |-> 7]
VS      == [s |-> "vs",      len |-> 2]

Segments == {SP, X100, X200, GAN, TOI, SO_SANH, VS}
Texts == SeqsUpTo(Segments, MaxSegs)

\* len(q)
RECURSIVE CharLen(_)
CharLen(q) == IF q = <<>> THEN 0 ELSE Head(q).len + CharLen(Tail(q))

\* str.strip(): leading and trailing whitespace removed.
RECURSIVE LStrip(_)
LStrip(q) == IF q # <<>> /\ Head(q) = SP THEN LStrip(Tail(q)) ELSE q

RECURSIVE RStrip(_)
RStrip(q) ==
    IF q # <<>> /\ q[Len(q)] = SP THEN RStrip(SubSeq(q, 1, Len(q) - 1)) ELSE q

Strip(q) == RStrip(LStrip(q))

\* Lines 43-46, HEAVY_PATTERNS searched in q: "so sanh" .+ "vs" .+ "vs"
\* (each .+ is at least one character, so at least one segment).
MatchHeavy(q) ==
    \E i, j, k \in 1..Len(q) :
        /\ q[i] = SO_SANH /\ q[j] = VS /\ q[k] = VS
        /\ j >= i + 2 /\ k >= j + 2

\* Lines 29-41, COMPLEX_PATTERNS searched in q: "gan (toi|day|nhat)".
MatchComplex(q) ==
    \E i \in 1..(Len(q) - 2) : q[i] = GAN /\ q[i + 1] = SP /\ q[i + 2] = TOI

\* Line 91: re.search(r"g[aầ]n|xung quanh|khu v[uự]c|gan|nearby", q)
LocationWord(q) == \E i \in 1..Len(q) : q[i] = GAN

\* Mutant: the length test of the heavy rule is missing.
IsHeavyPatternsOnly(q) == MatchHeavy(q)

\* Lines 87-88: _is_heavy
IsHeavy(q) == CharLen(q) > 200 \/ MatchHeavy(q)

\* Mutant: the location flag is ignored.
IsComplexNoLocation(q, has_location) == MatchComplex(q) \/ CharLen(q) > 100

\* Lines 90-92: _is_complex
IsComplex(q, has_location) ==
    \/ has_location /\ LocationWord(q)
    \/ MatchComplex(q)
    \/ CharLen(q) > 100

\* Lines 49-54: RouteDecision
RouteDecision(model, max_output_tokens, query_type) ==
    [model |-> model, max_output_tokens |-> max_output_tokens,
     query_type |-> query_type]

\* Mutant: the complex rule is tried before the heavy rule.
RouteComplexFirst(query, has_location) ==
    LET q == Strip(query) IN
    IF IsComplex(q, has_location) THEN RouteDecision("gemini-flash", 800, "complex")
    ELSE IF IsHeavy(q) THEN RouteDecision("gemini-pro", 1500, "heavy")
    ELSE RouteDecision("local", 256, "simple")

\* Lines 67-74: QueryRouter.route
Route(query, has_location) ==
    LET q == Strip(query) IN
    IF IsHeavy(q) THEN RouteDecision("gemini-pro", 1500, "heavy")
    ELSE IF IsComplex(q, has_location) THEN RouteDecision("gemini-flash", 800, "complex")
    ELSE RouteDecision("local", 256, "simple")

NoDecision == RouteDecision(None, 0, None)

InitRouter ==
    /\ r_query \in Texts
    /\ r_has_location \in BOOLEAN
    /\ r_decision = NoDecision
    /\ StreamIdle /\ MergeIdle /\ SearchIdle
    /\ ExtIdle
    /\ LateIdle

CallRoute ==
    /\ r_decision = NoDecision
    /\ r_decision' = Route(r_query, r_has_location)
    /\ UNCHANGED <<r_query, r_has_location>>
    /\ UNCHANGED <<streamVars, mergeVars, searchVars>>
    /\ UNCHANGED extVars
    /\ UNCHANGED lateVars

NextRouter == CallRoute

SpecRouter == InitRouter /\ [][NextRouter]_vars

Routed == r_decision # NoDecision

\* C8 (as stated): every text longer than 200 characters is routed heavy.
C8_LongTextHeavy ==
    (Routed /\ CharLen(r_query) > 200) =>
        r_decision = RouteDecision("gemini-pro", 1500, "heavy")

\* C8 (amended): every text that is longer than 200 characters after its
\* leading and trailing whitespace is removed is routed heavy (gemini-pro,
\* 1500), whatever its content and whatever has_location.
C8_LongStrippedTextHeavy ==
    (Routed /\ CharLen(Strip(r_query)) > 200) =>
        r_decision = RouteDecision("gemini-pro", 1500, "heavy")

\* Longer than 200 by length alone, with a complex pattern in it.
C8_Witness ==
    /\ Routed /\ CharLen(Strip(r_query)) > 200
    /\ ~MatchHeavy(r_query) /\ MatchComplex(r_query)
    /\ r_decision.query_type = "heavy"

\* C9 (as stated): has_location and a proximity word in the text give
\* complex.
C9_LocationWordComplex ==
    (Routed /\ r_has_location /\ LocationWord(r_query)) =>
        /\ r_decision.query_type = "complex"
        /\ r_decision.model = "gemini-flash"

\* C9 (amended): has_location and a proximity word in a text that the heavy
\* rule does not take (stripped length <= 200, no heavy pattern) give
\* complex, even without a complex pattern and with a short text.
C9_LocationWordComplexUnlessHeavy ==
    (/\ Routed /\ r_has_location /\ LocationWord(r_query)
     /\ CharLen(Strip(r_query)) <= 200 /\ ~MatchHeavy(Strip(r_query))) =>
        /\ r_decision.query_type = "complex"
        /\ r_decision.model = "gemini-flash"

C9_Witness ==
    /\ Routed /\ r_has_location /\ LocationWord(r_query)
    /\ CharLen(r_query) <= 100 /\ ~MatchComplex(r_query)
    /\ r_decision.query_type = "complex"

\* C10: the rules are tried in the order heavy, complex, simple on the
\* stripped text and the first that holds decides: heavy whenever the heavy
\* rule holds (also when the complex rule holds too), complex exactly when
\* the heavy rule fails and the complex rule holds, simple exactly when
\* neither holds.
C10_PriorityOrder ==
    Routed =>
        LET q == Strip(r_query)
            H == CharLen(q) > 200 \/ MatchHeavy(q)
            C == \/ r_has_location /\ LocationWord(q)
                 \/ MatchComplex(q)
                 \/ CharLen(q) > 100
        IN  /\ H => r_decision = RouteDecision("gemini-pro", 1500, "heavy")
            /\ (~H /\ C) => r_decision = RouteDecision("gemini-flash", 800, "complex")
            /\ (~H /\ ~C) => r_decision = RouteDecision("local", 256, "simple")
            /\ r_decision.query_type \in {"heavy", "complex", "simple"}

\* A text that the heavy pattern and a complex pattern both match.
C10_Witness ==
    /\ Routed /\ MatchHeavy(r_query) /\ CharLen(r_query) <= 100
    /\ r_has_location /\ LocationWord(r_query)
    /\ r_decision.query_type = "heavy"

(***************************************************************************)
(* GeminiService.chat and _build_params (core/gemini.py), with the         *)
(* decisions that reach them: QueryRouter.route, the fallback of           *)
(* ChatHandler, rank_nearby, and a direct caller with any tier and budget. *)
(***************************************************************************)

\* _MAX_TOKENS
MAX_TOKENS ==
    [t \in MAX_TOKENS_KEYS |-> IF t = "gemini-flash" THEN 800 ELSE 1500]

\* Mutant: the fallback is what routing the message again gives.
FallbackDecisionReclassified == RouteDecision("local", 256, "simple")

\* ChatHandler._fallback_decision
FallbackDecision == RouteDecision("gemini-flash", 600, "complex")

\* The (tier, max_tokens) rank_nearby passes to chat.
RankNearbyDecision == RouteDecision("gemini-flash", 800, "nearby")

DecisionSources == {"route", "fallback", "rank_nearby", "caller"}

\* Messages routed in this specification.
GeminiTexts == SeqsUpTo(Segments, MaxGeminiSegs)

\* max_tokens values a direct caller passes.
CallerBudgets == {0, 1, 256, 600, 800, 801, 1500, 1501, 4000}

\* Exception types the provider call raises: network, quota, a response
\* without text.
ProviderErrors == {"ServiceUnavailable", "ResourceExhausted", "ValueError"}

NoReply == [kind |-> "none", text |-> "", type_name |-> None]
ProviderText == [kind |-> "text", text |-> "ok", type_name |-> None]
\* f"Xin loi, AI dang gap su co. ({type(e).__name__})"
Apology(e) ==
    [kind |-> "apology", text |-> "Xin loi, AI dang gap su co.", type_name |-> e]
\* An exception that leaves chat.
Raised(e) == [kind |-> "raised", text |-> "", type_name |-> e]

InitGemini ==
    /\ g_src \in DecisionSources
    /\ g_op \in {"chat", "stream"}
    /\ g_query \in (IF g_src = "route" THEN GeminiTexts ELSE {<<>>})
    /\ g_has_location \in (IF g_src = "route" THEN BOOLEAN ELSE {FALSE})
    /\ g_tier \in (IF g_src = "caller" THEN ModelTier ELSE {None})
    /\ g_max_tokens \in (IF g_src = "caller" THEN CallerBudgets ELSE {0})
    /\ g_pc = (IF g_src = "caller" THEN "params" ELSE "decide")
    /\ g_cfg_tokens = 0 /\ g_exc = None /\ g_reply = NoReply
    /\ BaseIdle /\ HistoryIdle /\ ChatIdle /\ ClickIdle
    /\ LateIdle

\* The decision whose tier and budget are passed on.
DecisionOf(src, query, has_location) ==
    IF src = "route" THEN Route(query, has_location)
    ELSE IF src = "fallback" THEN FallbackDecision
    ELSE RankNearbyDecision

\* route / _fallback_decision / rank_nearby produce (tier, max_tokens); a
\* local decision is answered by the template and reaches no provider call.
GDecide ==
    /\ g_pc = "decide"
    /\ LET d == DecisionOf(g_src, g_query, g_has_location) IN
        /\ g_tier' = d.model
        /\ g_max_tokens' = d.max_output_tokens
        /\ g_pc' = IF d.model = "local" THEN "local" ELSE "params"
    /\ UNCHANGED <<g_src, g_op, g_query, g_has_location, g_cfg_tokens, g_exc,
                   g_reply>>
    /\ UNCHANGED <<baseVars, historyVars, chatVars, clickVars>>
    /\ UNCHANGED lateVars

\* Mutant: the requested budget is passed through unclamped.
BuildTokensUnclamped(tier, max_tokens) == max_tokens

\* tokens = min(max_tokens, _MAX_TOKENS[tier])
BuildTokens(tier, max_tokens) == Min(max_tokens, MAX_TOKENS[tier])

\* _build_params, called by chat and stream before any try: a tier without
\* a _MAX_TOKENS entry raises KeyError to the caller.
GBuildParams ==
    /\ g_pc = "params"
    /\ IF g_tier \in MAX_TOKENS_KEYS
       THEN /\ g_cfg_tokens' = BuildTokens(g_tier, g_max_tokens)
            /\ g_pc' = "calling"
            /\ UNCHANGED g_reply
       ELSE /\ g_reply' = Raised("KeyError")
            /\ g_pc' = "raised"
            /\ UNCHANGED g_cfg_tokens
    /\ UNCHANGED <<g_src, g_op, g_query, g_has_location, g_tier, g_max_tokens,
                   g_exc>>
    /\ UNCHANGED <<baseVars, historyVars, chatVars, clickVars>>
    /\ UNCHANGED lateVars

\* stream: the worker thread is started with cfg (the rest is SpecStream).
GStreamStart ==
    /\ g_pc = "calling" /\ g_op = "stream"
    /\ g_pc' = "streaming"
    /\ UNCHANGED <<g_src, g_op, g_query, g_has_location, g_tier, g_max_tokens,
                   g_cfg_tokens, g_exc, g_reply>>
    /\ UNCHANGED <<baseVars, historyVars, chatVars, clickVars>>
    /\ UNCHANGED lateVars

\* chat: _call returns the text of the provider's answer.
GCallReturn ==
    /\ g_pc = "calling" /\ g_op = "chat"
    /\ g_reply' = ProviderText
    /\ g_pc' = "returned"
    /\ UNCHANGED <<g_src, g_op, g_query, g_has_location, g_tier, g_max_tokens,
                   g_cfg_tokens, g_exc>>
    /\ UNCHANGED <<baseVars, historyVars, chatVars, clickVars>>
    /\ UNCHANGED lateVars

\* chat: _call raises in the executor.
GCallRaise ==
    /\ g_pc = "calling" /\ g_op = "chat"
    /\ \E e \in ProviderErrors : g_exc' = e
    /\ g_pc' = "except"
    /\ UNCHANGED <<g_src, g_op, g_query, g_has_location, g_tier, g_max_tokens,
                   g_cfg_tokens, g_reply>>
    /\ UNCHANGED <<baseVars, historyVars, chatVars, clickVars>>
    /\ UNCHANGED lateVars

\* Mutant: the exception of the provider call leaves chat.
GChatExceptReraise ==
    /\ g_pc = "except"
    /\ g_reply' = Raised(g_exc)
    /\ g_pc' = "raised"
    /\ UNCHANGED <<g_src, g_op, g_query, g_has_location, g_tier, g_max_tokens,
                   g_cfg_tokens, g_exc>>
    /\ UNCHANGED <<baseVars, historyVars, chatVars, clickVars>>
    /\ UNCHANGED lateVars

\* chat: except Exception as e: return the apology with type(e).__name__
GChatExcept ==
    /\ g_pc = "except"
    /\ g_reply' = Apology(g_exc)
    /\ g_pc' = "returned"
    /\ UNCHANGED <<g_src, g_op, g_query, g_has_location, g_tier, g_max_tokens,
                   g_cfg_tokens, g_exc>>
    /\ UNCHANGED <<baseVars, historyVars, chatVars, clickVars>>
    /\ UNCHANGED lateVars

NextGemini ==
    \/ GDecide \/ GBuildParams \/ GStreamStart \/ GCallReturn \/ GCallRaise
    \/ GChatExcept

SpecGemini == InitGemini /\ [][NextGemini]_vars

\* Ceiling of each tier (local 256, light model 800, heavy model 1500).
TierCeiling ==
    [t \in ModelTier |-> IF t = "local" THEN 256
                         ELSE IF t = "gemini-flash" THEN 800 ELSE 1500]

\* The provider call has been configured.
CfgBuilt == g_pc \in {"calling", "streaming", "except", "returned"}

\* C11: the budget of every decision made by route or by the fallback is at
\* most the ceiling of its tier, and the budget chat / stream hand to the
\* provider is min(requested budget, ceiling of the tier), whatever was
\* requested.
C11_BudgetWithinCeiling ==
    /\ (g_src \in {"route", "fallback"} /\ g_pc # "decide")
          => g_max_tokens <= TierCeiling[g_tier]
    /\ CfgBuilt => /\ g_cfg_tokens = Min(g_max_tokens, TierCeiling[g_tier])
                   /\ g_cfg_tokens <= TierCeiling[g_tier]

\* A caller asked for more than the ceiling of the heavy tier and the
\* provider call was configured.
C11_Witness ==
    /\ g_src = "caller" /\ g_tier = "gemini-pro" /\ g_max_tokens = 1501
    /\ g_pc = "streaming" /\ g_cfg_tokens = 1500

\* C20: when the provider call of chat fails, chat does not raise: it
\* returns the apology that carries the type name of the exception.
C20_ChatNeverRaisesOnProviderFailure ==
    (g_op = "chat" /\ g_exc # None /\ g_pc # "except")
        => /\ g_pc = "returned"
           /\ g_reply = Apology(g_exc)
           /\ g_reply.type_name \in ProviderErrors

\* The provider ran out of quota and chat returned the apology.
C20_Witness ==
    /\ g_op = "chat" /\ g_pc = "returned" /\ g_exc = "ResourceExhausted"
    /\ g_reply.kind = "apology" /\ g_reply.type_name = "ResourceExhausted"

(***************************************************************************)
(* PromptBuilder.build_history / trim_history (core/prompt.py)             *)
(***************************************************************************)

MAX_HISTORY_TURNS == 6

\* What a client can put in one history entry: a role and a text.  The text
\* of the i-th entry is "" or the numeral of i, so that entries differ.
TurnKinds == {"user", "model", "assistant", "empty"}

Turn(kind, i) ==
    IF kind = "empty" THEN [role |-> "user", text |-> ""]
    ELSE [role |-> kind, text |-> ToString(i)]

\* The history whose i-th entry is of kind f[i].
History(f) == [i \in DOMAIN f |-> Turn(f[i], i)]

\* Python's xs[-n:] for n > 0
LastN(xs, n) ==
    IF Len(xs) <= n THEN xs ELSE SubSeq(xs, Len(xs) - n + 1, Len(xs))

\* Mutant: the first turns are kept instead of the last.
TrimHistoryFirst(history) == SliceTo(history, MAX_HISTORY_TURNS)

\* history[-MAX_HISTORY_TURNS:] if history else []
TrimHistory(history) ==
    IF history # <<>> THEN LastN(history, MAX_HISTORY_TURNS) ELSE <<>>

\* {"role": m["role"], "parts": [{"text": m["text"]}]}
GeminiTurn(m) == [role |-> m.role, parts |-> <<[text |-> m.text]>>]

\* Mutant: turns with an empty text are kept too.
KeepTurnAnyText(m) == m.role \in {"user", "model"}

\* m.get("role") in ("user", "model") and m.get("text")
KeepTurn(m) == m.role \in {"user", "model"} /\ m.text # ""

RECURSIVE BuildHistoryLoop(_)
BuildHistoryLoop(trimmed) ==
    IF trimmed = <<>> THEN <<>>
    ELSE (IF KeepTurn(Head(trimmed)) THEN <<GeminiTurn(Head(trimmed))>>
          ELSE <<>>) \o BuildHistoryLoop(Tail(trimmed))

BuildHistory(raw) == BuildHistoryLoop(TrimHistory(raw))

InitHistory ==
    /\ \E n \in 0..MaxTurns : \E f \in [1..n -> TurnKinds] : p_raw = History(f)
    /\ p_pc = "call" /\ p_out = <<>>
    /\ BaseIdle /\ GeminiIdle /\ ChatIdle /\ ClickIdle
    /\ LateIdle

\* hist = self._pb.build_history(history or [])
CallBuildHistory ==
    /\ p_pc = "call"
    /\ p_out' = BuildHistory(p_raw)
    /\ p_pc' = "returned"
    /\ UNCHANGED p_raw
    /\ UNCHANGED <<baseVars, geminiVars, chatVars, clickVars>>
    /\ UNCHANGED lateVars

NextHistory == CallBuildHistory

SpecHistory == InitHistory /\ [][NextHistory]_vars

\* Indices of the last 6 entries of the request's history.
Last6 == {i \in 1..Len(p_raw) : i > Len(p_raw) - 6}

\* The entries of p_raw at the indices in K, in order, are exactly p_out.
OutIsExactly(K) ==
    /\ Len(p_out) = Cardinality(K)
    /\ \A i \in K :
          LET n == Cardinality({j \in K : j <= i}) IN
          /\ p_out[n].role = p_raw[i].role
          /\ p_out[n].parts = <<[text |-> p_raw[i].text]>>

ValidTurn(m) == m.role \in {"user", "model"} /\ m.text # ""

\* C18: the history handed to generation has at most 6 turns, and of more
\* than 6 turns that are all valid exactly the last 6 are handed on, in
\* their order.
C18_AtMostSixTheLastSix ==
    p_pc = "returned" =>
        /\ Len(p_out) <= 6
        /\ (Len(p_raw) > 6 /\ \A i \in 1..Len(p_raw) : ValidTurn(p_raw[i]))
              => /\ Len(p_out) = 6
                 /\ OutIsExactly(Last6)

\* More than 6 valid turns were given and the call returned.
C18_Witness ==
    /\ p_pc = "returned" /\ Len(p_raw) > 6
    /\ \A i \in 1..Len(p_raw) : ValidTurn(p_raw[i])
    /\ p_raw[1].role = "user" /\ p_raw[2].role = "model"
    /\ Len(p_out) = 6

\* C19 (as stated): a turn among the last 6 is kept iff its role is user or
\* assistant and its text is not empty; the kept turns keep their order.
C19_KeepsUserAssistant ==
    p_pc = "returned" =>
        OutIsExactly({i \in Last6 : /\ p_raw[i].role \in {"user", "assistant"}
                                    /\ p_raw[i].text # ""})

\* C19 (amended): a turn among the last 6 is kept iff its role is user or
\* model and its text is not empty; the kept turns keep their order.
C19_KeepsUserModel ==
    p_pc = "returned" =>
        OutIsExactly({i \in Last6 : /\ p_raw[i].role \in {"user", "model"}
                                    /\ p_raw[i].text # ""})

\* The last 6 turns hold a user turn, a model turn, an assistant turn and a
\* turn without text, and some turn before them was cut off.
C19_Witness ==
    /\ p_pc = "returned" /\ Len(p_raw) > 6
    /\ \E i, j, k, l \in Last6 :
          /\ p_raw[i].role = "user" /\ p_raw[i].text # ""
          /\ p_raw[j].role = "model"
          /\ p_raw[k].role = "assistant"
          /\ p_raw[l].text = ""
    /\ Len(p_out) = 3

(***************************************************************************)
(* POST /food/click (routes/search.py record_click) with increment_click   *)
(* and _do_increment (core/search.py) running on executor threads, each    *)
(* with its own Session of db_session (db/session.py) on the SQLite file   *)
(* of the city.  The driver opens the write transaction only before the    *)
(* UPDATE that flush emits: the SELECT of session.get reads the committed  *)
(* row outside of it, and the UPDATE sets the count to the value computed  *)
(* from that read.                                                         *)
(***************************************************************************)

Callers == 1..MaxCallers

\* Cities and ids sent in a ClickRequest (one store, one unknown city, one
\* id that no row has).
ClickCities == {"ha_noi", "paris"}
ClickIds == {1, 2, MaxId + 1}

LockTimeout == "OperationalError: database is locked"

\* What record_click answers: the HTTP status, the detail of an error and
\* the so_lan_click of a ClickResponse.
HttpResponse(status, detail, so_lan_click) ==
    [status |-> status, detail |-> detail, so_lan_click |-> so_lan_click]

NoResponse == HttpResponse(0, "", 0)

\* (food.so_lan_click or 0) + 1
NewCount(c) == (IF c = NullCount THEN 0 ELSE c) + 1

InitClick ==
    /\ k_mode \in {"seq", "conc"}
    /\ k_args \in [Callers -> [city : ClickCities, id : ClickIds]]
    /\ k_pc = [w \in Callers |-> "idle"]
    /\ k_read = [w \in Callers |-> 0]
    /\ k_lock = 0
    /\ k_db = DbInit
    /\ k_out = [w \in Callers |-> NoResponse]
    /\ k_log = <<>>
    /\ BaseIdle /\ GeminiIdle /\ HistoryIdle /\ ChatIdle
    /\ LateIdle

\* record_click -> increment_click: _validate_city, then the executor.  In
\* mode "seq" a request starts when no other is in progress.
KValidate(w) ==
    /\ k_pc[w] = "idle"
    /\ k_mode = "seq" => \A v \in Callers : k_pc[v] \in {"idle", "done"}
    /\ IF k_args[w].city \in VALID_CITIES
       THEN /\ k_pc' = [k_pc EXCEPT ![w] = "get"]
            /\ UNCHANGED k_out
       ELSE /\ k_pc' = [k_pc EXCEPT ![w] = "done"]
            /\ k_out' = [k_out EXCEPT ![w] = HttpResponse(404, UnknownCity, 0)]
    /\ UNCHANGED <<k_mode, k_args, k_read, k_lock, k_db, k_log>>
    /\ UNCHANGED <<baseVars, geminiVars, historyVars, chatVars>>
    /\ UNCHANGED lateVars

\* food = session.get(Food, food_id); None raises ValueError (rollback,
\* close), which record_click answers with 404.
KGet(w) ==
    /\ k_pc[w] = "get"
    /\ IF k_args[w].id \in DOMAIN k_db
       THEN /\ k_read' = [k_read EXCEPT ![w] = k_db[k_args[w].id].so_lan_click]
            /\ k_pc' = [k_pc EXCEPT ![w] = "flush"]
            /\ UNCHANGED k_out
       ELSE /\ k_pc' = [k_pc EXCEPT ![w] = "done"]
            /\ k_out' = [k_out EXCEPT ![w] = HttpResponse(404, FoodNotFound, 0)]
            /\ UNCHANGED k_read
    /\ UNCHANGED <<k_mode, k_args, k_lock, k_db, k_log>>
    /\ UNCHANGED <<baseVars, geminiVars, historyVars, chatVars>>
    /\ UNCHANGED lateVars

\* food.so_lan_click = (... or 0) + 1; session.flush(): BEGIN and UPDATE,
\* which takes the write lock of the database.
KFlush(w) ==
    /\ k_pc[w] = "flush"
    /\ k_lock = 0
    /\ k_lock' = w
    /\ k_pc' = [k_pc EXCEPT ![w] = "commit"]
    /\ UNCHANGED <<k_mode, k_args, k_read, k_db, k_out, k_log>>
    /\ UNCHANGED <<baseVars, geminiVars, historyVars, chatVars>>
    /\ UNCHANGED lateVars

\* session.flush() while another session holds the write lock: the UPDATE
\* waits, and fails when the busy timeout runs out (rollback, close; 500).
KFlushTimeout(w) ==
    /\ k_pc[w] = "flush"
    /\ k_lock \notin {0, w}
    /\ k_pc' = [k_pc EXCEPT ![w] = "done"]
    /\ k_out' = [k_out EXCEPT ![w] = HttpResponse(500, LockTimeout, 0)]
    /\ UNCHANGED <<k_mode, k_args, k_read, k_lock, k_db, k_log>>
    /\ UNCHANGED <<baseVars, geminiVars, historyVars, chatVars>>
    /\ UNCHANGED lateVars

\* Mutant: the session is closed without a commit.
KCommitNoPersist(w) ==
    /\ k_pc[w] = "commit"
    /\ k_lock' = 0
    /\ k_pc' = [k_pc EXCEPT ![w] = "done"]
    /\ k_out' = [k_out EXCEPT ![w] = HttpResponse(200, "", NewCount(k_read[w]))]
    /\ k_log' = Append(k_log, [id |-> k_args[w].id, count |-> NewCount(k_read[w])])
    /\ UNCHANGED <<k_mode, k_args, k_read, k_db>>
    /\ UNCHANGED <<baseVars, geminiVars, historyVars, chatVars>>
    /\ UNCHANGED lateVars

\* return food.so_lan_click; session.commit(); session.close(); the
\* ClickResponse carries the returned count.
KCommit(w) ==
    /\ k_pc[w] = "commit"
    /\ k_db' = [k_db EXCEPT ![k_args[w].id].so_lan_click = NewCount(k_read[w])]
    /\ k_lock' = 0
    /\ k_pc' = [k_pc EXCEPT ![w] = "done"]
    /\ k_out' = [k_out EXCEPT ![w] = HttpResponse(200, "", NewCount(k_read[w]))]
    /\ k_log' = Append(k_log, [id |-> k_args[w].id, count |-> NewCount(k_read[w])])
    /\ UNCHANGED <<k_mode, k_args, k_read>>
    /\ UNCHANGED <<baseVars, geminiVars, historyVars, chatVars>>
    /\ UNCHANGED lateVars

NextClick ==
    \E w \in Callers :
        \/ KValidate(w) \/ KGet(w) \/ KFlush(w) \/ KFlushTimeout(w)
        \/ KCommit(w)

SpecClick == InitClick /\ [][NextClick]_vars

NullAsZero(c) == IF c = NullCount THEN 0 ELSE c

\* The requests on record id that were answered with the new count.
Succeeded(id) == {w \in Callers : k_out[w].status = 200 /\ k_args[w].id = id}

AllAnswered == \A w \in Callers : k_pc[w] = "done"

\* The stored count of every record is its initial count (NULL as 0) plus
\* the number of successful calls on it.
CountsAddUp ==
    \A id \in DOMAIN k_db :
        NullAsZero(k_db[id].so_lan_click)
            = NullAsZero(DbInit[id].so_lan_click) + Cardinality(Succeeded(id))

\* C15: concurrent increment_click calls lose no update: when all calls are
\* answered, the stored count of every record is its initial count plus the
\* number of calls on it that succeeded.
C15_NoLostUpdate ==
    (k_mode = "conc" /\ AllAnswered) => CountsAddUp

\* C16: for sequential calls the stored count of a record is always its
\* initial count (NULL as 0) plus the number of successful calls on it, each
\* successful call returns the count it stored, and a failed call (absent
\* id, unknown city) leaves every count alone.
C16_SequentialCountsAddUp ==
    k_mode = "seq" =>
        /\ CountsAddUp
        /\ DOMAIN k_db = DOMAIN DbInit
        /\ \A j \in 1..Len(k_log) :
              k_log[j].count
                 = NullAsZero(DbInit[k_log[j].id].so_lan_click)
                   + Cardinality({i \in 1..j : k_log[i].id = k_log[j].id})
        /\ \A w \in Callers :
              k_out[w].status = 200 =>
                  \E j \in 1..Len(k_log) :
                      /\ k_log[j].id = k_args[w].id
                      /\ k_log[j].count = k_out[w].so_lan_click
        /\ Len(k_log) = Cardinality({w \in Callers : k_out[w].status = 200})

\* Two sequential clicks on the record whose count was NULL, both answered.
C16_Witness ==
    /\ k_mode = "seq"
    /\ \E v, w \in Callers :
          /\ v # w
          /\ k_args[v] = [city |-> "ha_noi", id |-> 1] /\ k_args[w] = k_args[v]
          /\ k_out[v].status = 200 /\ k_out[v].so_lan_click = 1
          /\ k_out[w].status = 200 /\ k_out[w].so_lan_click = 2
    /\ k_db[1].so_lan_click = 2

\* C17: a click on an id that a valid city's store does not have and a
\* click with an unknown city are answered with different kinds of error.
C17_NotFoundDistinctFromInvalidInput ==
    \A v, w \in Callers :
        (/\ k_pc[v] = "done" /\ k_pc[w] = "done"
         /\ k_args[v].city \in VALID_CITIES /\ k_args[v].id \notin DOMAIN k_db
         /\ k_args[w].city \notin VALID_CITIES)
            => k_out[v].status # k_out[w].status

(***************************************************************************)
(* ChatHandler (handlers/chat_handler.py): handle_rest for POST /chat and  *)
(* handle_ws for one WebSocket session.  The answers of the collaborators  *)
(* (SimpleQueryHandler.handle, hybrid_search, the chunks of stream) are    *)
(* chosen freely; route is the router above.                               *)
(***************************************************************************)

\* Messages a client sends: empty, blank, and one or more of each route.
ChatTexts ==
    {<<>>, <<SP>>, <<TOI>>, <<SP, TOI, SP>>, <<GAN, SP, TOI>>, <<X200, TOI>>}

\* ChatRequest.message has min_length = 1.
RestTexts == {t \in ChatTexts : CharLen(t) >= 1}

\* Exceptions of the collaborators.
TemplateFailed == "Exception: template search failure"
ProviderKeyError == "KeyError: tier"
Disconnected == "WebSocketDisconnect"

\* ChatResponse, or the HTTPException of routes/chat.py (status 500).
ChatResponse(status, model_used, query_type) ==
    [status |-> status, model_used |-> model_used, query_type |-> query_type]

NoChatResponse == ChatResponse(0, None, None)

\* A frame on the WebSocket: send_text (kind "text"), the closing send_json
\* (kind "done", with model and type) or an error send_json.
Frame(msg, kind, model, type) ==
    [msg |-> msg, kind |-> kind, model |-> model, type |-> type]

\* A call of hybrid_search: by the template's search callback or by
\* _call_gemini / _ws_stream_gemini.
SearchCall(msg, by) == [msg |-> msg, by |-> by]

GenCall(msg, op, d) ==
    [msg |-> msg, op |-> op, tier |-> d.model, max_tokens |-> d.max_output_tokens]

InitChat ==
    /\ o_mode \in {"rest", "ws"}
    /\ o_pc = "recv" /\ o_cur = 0 /\ o_text = <<>> /\ o_addr = FALSE
    /\ o_class = NoDecision /\ o_decision = NoDecision /\ o_routes = 0
    /\ o_tmpl = "none" /\ o_gen = <<>> /\ o_chunks = 0 /\ o_frames = <<>>
    /\ o_resp = NoChatResponse /\ o_error = None /\ o_completed = 0
    /\ o_searches = <<>>
    /\ BaseIdle /\ GeminiIdle /\ HistoryIdle /\ ClickIdle
    /\ LateIdle

\* Mutant: the template is never tried.
AfterRouteNoTemplate(decision) == "search"

\* if decision.model == "local": the template is tried, else search.
AfterRoute(decision) == IF decision.model = "local" THEN "simple" ELSE "search"

\* handle_rest: decision = route(req.message, bool(req.user_address))
RestRequest ==
    /\ o_mode = "rest" /\ o_pc = "recv" /\ o_cur = 0
    /\ \E text \in RestTexts, addr \in BOOLEAN :
          LET d == Route(text, addr) IN
          /\ o_text' = text /\ o_addr' = addr
          /\ o_class' = d /\ o_decision' = d
          /\ o_pc' = AfterRoute(d)
    /\ o_cur' = 1 /\ o_routes' = 1 /\ o_tmpl' = "none"
    /\ UNCHANGED <<o_mode, o_gen, o_chunks, o_frames, o_resp, o_error,
                   o_completed>>
    /\ UNCHANGED o_searches
    /\ UNCHANGED <<baseVars, geminiVars, historyVars, clickVars>>
    /\ UNCHANGED lateVars

\* handle_ws: data = await receive_json(), then _handle_ws_message up to
\* its first await: an empty message is answered with an error frame and
\* the loop reads again; any other message is routed.
ReadMessage ==
    /\ o_mode = "ws" /\ o_cur < MaxMsgs
    /\ o_cur' = o_cur + 1
    /\ \E text \in ChatTexts, addr \in BOOLEAN :
          LET message == Strip(text)
              d == Route(message, addr) IN
          IF message = <<>>
          THEN /\ o_frames' = Append(o_frames,
                                     Frame(o_cur + 1, "error", None, None))
               /\ o_completed' = o_completed + 1
               /\ o_text' = <<>> /\ o_addr' = FALSE
               /\ o_class' = NoDecision /\ o_decision' = NoDecision
               /\ o_routes' = 0
               /\ UNCHANGED o_pc
          ELSE /\ o_text' = message /\ o_addr' = addr
               /\ o_class' = d /\ o_decision' = d
               /\ o_routes' = 1
               /\ o_pc' = AfterRoute(d)
               /\ UNCHANGED <<o_frames, o_completed>>
    /\ o_tmpl' = "none" /\ o_chunks' = 0
    /\ UNCHANGED <<o_mode, o_gen, o_resp, o_error>>
    /\ UNCHANGED o_searches
    /\ UNCHANGED <<baseVars, geminiVars, historyVars, clickVars>>
    /\ UNCHANGED lateVars

\* Mutant: the next message is read while a stream is still being sent.
WsReceiveEarly ==
    /\ o_pc \in {"recv", "stream"}
    /\ ReadMessage

\* The loop of handle_ws reads only after _handle_ws_message has returned.
WsReceive ==
    /\ o_pc = "recv"
    /\ ReadMessage

\* The client goes away: receive_json / send_text raises
\* WebSocketDisconnect, which ends the loop of handle_ws.
WsDisconnect ==
    /\ o_mode = "ws" /\ o_pc \in {"recv", "stream"}
    /\ o_pc' = "closed" /\ o_error' = Disconnected
    /\ UNCHANGED <<o_mode, o_cur, o_text, o_addr, o_class, o_decision,
                   o_routes, o_tmpl, o_gen, o_chunks, o_frames, o_resp,
                   o_completed>>
    /\ UNCHANGED o_searches
    /\ UNCHANGED <<baseVars, geminiVars, historyVars, clickVars>>
    /\ UNCHANGED lateVars

\* An exception leaves the handler: POST /chat answers 500; handle_ws sends
\* an error frame (_safe_send_error) and its loop ends.
Fail(exc) ==
    /\ o_error' = exc
    /\ IF o_mode = "rest"
       THEN /\ o_resp' = ChatResponse(500, None, None)
            /\ o_pc' = "done"
            /\ UNCHANGED o_frames
       ELSE /\ o_frames' = Append(o_frames, Frame(o_cur, "error", None, None))
            /\ o_pc' = "closed"
            /\ UNCHANGED o_resp

\* _try_simple / _ws_try_simple: handled gives the local answer, a miss the
\* fallback decision, an exception of the template's search ends the call.
\* The template calls the search callback unless it misses (see SpecSimple).
TrySimple ==
    /\ o_pc = "simple"
    /\ \E outcome \in {"handled", "miss", "raised"} :
          /\ o_tmpl' = outcome
          /\ o_searches' = IF outcome = "miss" THEN o_searches
                            ELSE Append(o_searches, SearchCall(o_cur, "template"))
          /\ CASE outcome = "handled" ->
                    /\ IF o_mode = "rest"
                       THEN /\ o_resp' = ChatResponse(200, "local", "simple")
                            /\ o_pc' = "done"
                            /\ UNCHANGED o_frames
                       ELSE /\ o_frames' = o_frames
                                  \o <<Frame(o_cur, "text", None, None),
                                       Frame(o_cur, "done", "local", "simple")>>
                            /\ o_pc' = "recv"
                            /\ UNCHANGED o_resp
                    /\ o_completed' = o_completed + 1
                    /\ UNCHANGED <<o_decision, o_error>>
               [] outcome = "miss" ->
                    /\ o_decision' = FallbackDecision
                    /\ o_pc' = "search"
                    /\ UNCHANGED <<o_frames, o_resp, o_error, o_completed>>
               [] outcome = "raised" ->
                    /\ Fail(TemplateFailed)
                    /\ UNCHANGED <<o_decision, o_completed>>
    /\ UNCHANGED <<o_mode, o_cur, o_text, o_addr, o_class, o_routes, o_gen,
                   o_chunks>>
    /\ UNCHANGED <<baseVars, geminiVars, historyVars, clickVars>>
    /\ UNCHANGED lateVars

\* items = await hybrid_search(city, message, top_k=10)
ChatSearch ==
    /\ o_pc = "search"
    /\ \/ /\ o_pc' = "gen"
          /\ UNCHANGED <<o_frames, o_resp, o_error>>
       \/ \E exc \in {UnknownCity, StorageFailed} : Fail(exc)
    /\ UNCHANGED <<o_mode, o_cur, o_text, o_addr, o_class, o_decision,
                   o_routes, o_tmpl, o_gen, o_chunks, o_completed>>
    /\ o_searches' = Append(o_searches, SearchCall(o_cur, "handler"))
    /\ UNCHANGED <<baseVars, geminiVars, historyVars, clickVars>>
    /\ UNCHANGED lateVars

\* _call_gemini: reply = await chat(..., decision.model,
\* decision.max_output_tokens, ...); the ChatResponse reports the decision.
RestGenerate ==
    /\ o_mode = "rest" /\ o_pc = "gen"
    /\ o_gen' = Append(o_gen, GenCall(o_cur, "chat", o_decision))
    /\ IF o_decision.model \in MAX_TOKENS_KEYS
       THEN /\ o_resp' = ChatResponse(200, o_decision.model,
                                      o_decision.query_type)
            /\ o_pc' = "done"
            /\ o_completed' = o_completed + 1
            /\ UNCHANGED <<o_frames, o_error>>
       ELSE /\ Fail(ProviderKeyError)
            /\ UNCHANGED o_completed
    /\ UNCHANGED <<o_mode, o_cur, o_text, o_addr, o_class, o_decision,
                   o_routes, o_tmpl, o_chunks>>
    /\ UNCHANGED o_searches
    /\ UNCHANGED <<baseVars, geminiVars, historyVars, clickVars>>
    /\ UNCHANGED lateVars

\* Mutant: the stream is started with the decision of the classifier.
WsStreamStartClassified ==
    /\ o_mode = "ws" /\ o_pc = "gen"
    /\ o_gen' = Append(o_gen, GenCall(o_cur, "stream", o_class))
    /\ IF o_class.model \in MAX_TOKENS_KEYS
       THEN /\ o_pc' = "stream"
            /\ UNCHANGED <<o_frames, o_resp, o_error>>
       ELSE Fail(ProviderKeyError)
    /\ UNCHANGED <<o_mode, o_cur, o_text, o_addr, o_class, o_decision,
                   o_routes, o_tmpl, o_chunks, o_completed>>
    /\ UNCHANGED o_searches
    /\ UNCHANGED <<baseVars, geminiVars, historyVars, clickVars>>
    /\ UNCHANGED lateVars

\* _ws_stream_gemini: stream(..., decision.model,
\* decision.max_output_tokens, ...) is started.
WsStreamStart ==
    /\ o_mode = "ws" /\ o_pc = "gen"
    /\ o_gen' = Append(o_gen, GenCall(o_cur, "stream", o_decision))
    /\ IF o_decision.model \in MAX_TOKENS_KEYS
       THEN /\ o_pc' = "stream"
            /\ UNCHANGED <<o_frames, o_resp, o_error>>
       ELSE Fail(ProviderKeyError)
    /\ UNCHANGED <<o_mode, o_cur, o_text, o_addr, o_class, o_decision,
                   o_routes, o_tmpl, o_chunks, o_completed>>
    /\ UNCHANGED o_searches
    /\ UNCHANGED <<baseVars, geminiVars, historyVars, clickVars>>
    /\ UNCHANGED lateVars

\* async for chunk in stream(...): await ws.send_text(chunk)
WsStreamChunk ==
    /\ o_mode = "ws" /\ o_pc = "stream" /\ o_chunks < MaxChunks
    /\ o_frames' = Append(o_frames, Frame(o_cur, "text", None, None))
    /\ o_chunks' = o_chunks + 1
    /\ UNCHANGED <<o_mode, o_pc, o_cur, o_text, o_addr, o_class, o_decision,
                   o_routes, o_tmpl, o_gen, o_resp, o_error, o_completed>>
    /\ UNCHANGED o_searches
    /\ UNCHANGED <<baseVars, geminiVars, historyVars, clickVars>>
    /\ UNCHANGED lateVars

\* Mutant: the closing frame reports the decision of the classifier.
WsStreamEndReportsClass ==
    /\ o_mode = "ws" /\ o_pc = "stream"
    /\ o_frames' = Append(o_frames, Frame(o_cur, "done", o_class.model,
                                          o_class.query_type))
    /\ o_completed' = o_completed + 1
    /\ o_pc' = "recv"
    /\ UNCHANGED <<o_mode, o_cur, o_text, o_addr, o_class, o_decision,
                   o_routes, o_tmpl, o_gen, o_chunks, o_resp, o_error>>
    /\ UNCHANGED o_searches
    /\ UNCHANGED <<baseVars, geminiVars, historyVars, clickVars>>
    /\ UNCHANGED lateVars

\* The stream is drained: send_json({"done": True, "model": decision.model,
\* "type": decision.query_type, ...}); the loop reads the next message.
WsStreamEnd ==
    /\ o_mode = "ws" /\ o_pc = "stream"
    /\ o_frames' = Append(o_frames, Frame(o_cur, "done", o_decision.model,
                                          o_decision.query_type))
    /\ o_completed' = o_completed + 1
    /\ o_pc' = "recv"
    /\ UNCHANGED <<o_mode, o_cur, o_text, o_addr, o_class, o_decision,
                   o_routes, o_tmpl, o_gen, o_chunks, o_resp, o_error>>
    /\ UNCHANGED o_searches
    /\ UNCHANGED <<baseVars, geminiVars, historyVars, clickVars>>
    /\ UNCHANGED lateVars

NextChat ==
    \/ RestRequest \/ WsReceive \/ WsDisconnect \/ TrySimple \/ ChatSearch
    \/ RestGenerate \/ WsStreamStart \/ WsStreamChunk \/ WsStreamEnd

SpecChat == InitChat /\ [][NextChat]_vars

\* The calls of chat / stream made for the current message.
GenCallsOfCurrent == {i \in 1..Len(o_gen) : o_gen[i].msg = o_cur}

\* The closing frames sent for the current message.
DoneFramesOfCurrent ==
    {i \in 1..Len(o_frames) : o_frames[i].msg = o_cur /\ o_frames[i].kind = "done"}

\* C12: after a miss of the template (the classifier chose local) the
\* handler does not fail and does not route again: it goes on to search and
\* generation with the decision (gemini-flash, 600, complex), and the
\* response or the closing frame reports gemini-flash and complex.
C12_MissEscalatesToFallback ==
    o_tmpl = "miss" =>
        /\ o_class.model = "local"
        /\ o_routes = 1
        /\ o_decision.model = "gemini-flash"
        /\ o_decision.max_output_tokens = 600
        /\ o_decision.query_type = "complex"
        /\ o_error \in {None, UnknownCity, StorageFailed, Disconnected}
        /\ \A i \in GenCallsOfCurrent :
              o_gen[i].tier = "gemini-flash" /\ o_gen[i].max_tokens = 600
        /\ o_resp.status = 200 =>
              /\ o_resp.model_used = "gemini-flash"
              /\ o_resp.query_type = "complex"
        /\ \A i \in DoneFramesOfCurrent :
              o_frames[i].model = "gemini-flash" /\ o_frames[i].type = "complex"

\* On a WebSocket the template missed, the answer was streamed and closed.
C12_Witness ==
    /\ o_mode = "ws" /\ o_tmpl = "miss" /\ o_pc = "recv"
    /\ GenCallsOfCurrent # {} /\ DoneFramesOfCurrent # {}
    /\ o_frames[Len(o_frames)].model = "gemini-flash"

\* C13: the template is tried iff route returned local, and when it handles
\* the message the response (local, simple) is produced without a call of
\* chat or stream.
C13_TemplateIffLocal ==
    /\ o_tmpl # "none" => o_class.model = "local"
    /\ (o_class.model = "local" /\ o_pc # "simple") => o_tmpl # "none"
    /\ GenCallsOfCurrent # {} => o_tmpl \in {"none", "miss"}
    /\ o_tmpl = "handled" =>
          /\ GenCallsOfCurrent = {}
          /\ o_mode = "rest" => o_resp = ChatResponse(200, "local", "simple")
          /\ o_mode = "ws" =>
                /\ DoneFramesOfCurrent = {Len(o_frames)}
                /\ o_frames[Len(o_frames)].model = "local"
                /\ o_frames[Len(o_frames)].type = "simple"
    /\ o_resp.model_used = "local" => o_tmpl = "handled"
    /\ \A i \in DoneFramesOfCurrent :
          o_frames[i].model = "local" => o_tmpl = "handled"

\* POST /chat was answered by the template, with no generation call.
C13_Witness ==
    /\ o_mode = "rest" /\ o_pc = "done" /\ o_tmpl = "handled"
    /\ o_class.model = "local"
    /\ o_resp.model_used = "local" /\ o_resp.query_type = "simple"
    /\ o_gen = <<>>

\* C14: on a WebSocket session a message is read only when every message
\* read before is complete, and the frames of one message all come before
\* the frames of the next: the closing (or error) frame of a message is the
\* last frame of that message.
C14_OneMessageAtATime ==
    o_mode = "ws" =>
        /\ o_cur <= o_completed + 1
        /\ o_pc = "recv" => o_cur = o_completed
        /\ \A i, j \in 1..Len(o_frames) :
              i < j => /\ o_frames[i].msg <= o_frames[j].msg
                       /\ o_frames[i].msg = o_frames[j].msg
                             => o_frames[i].kind = "text"

\* Two messages were streamed one after the other on one session.
C14_Witness ==
    /\ o_mode = "ws" /\ o_cur = 2 /\ o_completed = 2
    /\ \E i, j, k, l \in 1..Len(o_frames) :
          /\ i < j /\ j < k /\ k < l
          /\ o_frames[i].msg = 1 /\ o_frames[i].kind = "text"
          /\ o_frames[j].msg = 1 /\ o_frames[j].kind = "done"
          /\ o_frames[j].model = "gemini-pro"
          /\ o_frames[k].msg = 2 /\ o_frames[k].kind = "text"
          /\ o_frames[l].msg = 2 /\ o_frames[l].kind = "done"

\* C29: chat and stream are never called with the local tier: a local
\* decision is answered by the template or replaced by the fallback before
\* generation, so the lookup of _MAX_TOKENS never fails.
C29_NoGenerationWithLocalTier ==
    /\ \A i \in 1..Len(o_gen) :
          /\ o_gen[i].tier # "local"
          /\ o_gen[i].tier \in MAX_TOKENS_KEYS
    /\ o_error # ProviderKeyError
    /\ o_pc \in {"gen", "stream"} => o_decision.model # "local"

\* POST /chat: the classifier chose local, the template missed and chat was
\* called with the fallback tier.
C29_Witness ==
    /\ o_mode = "rest" /\ o_pc = "done" /\ o_class.model = "local"
    /\ o_tmpl = "miss" /\ o_resp.status = 200
    /\ Len(o_gen) = 1 /\ o_gen[1].tier = "gemini-flash"

\* The frames sent for the current message.
FramesOfCurrent == {i \in 1..Len(o_frames) : o_frames[i].msg = o_cur}

\* The current message of the session has been processed and the loop of
\* handle_ws is reading again.
CurrentProcessed == o_mode = "ws" /\ o_cur >= 1 /\ o_pc = "recv"

\* C30: a non-empty message processed without an exception gets exactly one
\* done frame, sent after all its text frames and carrying the tier and the
\* classification of the decision used (local / simple for the template);
\* an empty message gets one error frame, no search and no generation call,
\* and the session reads on.
C30_OneDoneFrameLastWithDecision ==
    /\ (CurrentProcessed /\ o_text # <<>>) =>
          /\ Cardinality(DoneFramesOfCurrent) = 1
          /\ DoneFramesOfCurrent = {Len(o_frames)}
          /\ \A i \in FramesOfCurrent : i < Len(o_frames) => o_frames[i].kind = "text"
          /\ IF o_tmpl = "handled"
             THEN /\ o_frames[Len(o_frames)].model = "local"
                  /\ o_frames[Len(o_frames)].type = "simple"
                  /\ Cardinality(FramesOfCurrent) = 2
             ELSE /\ GenCallsOfCurrent # {}
                  /\ \A i \in GenCallsOfCurrent :
                        o_frames[Len(o_frames)].model = o_gen[i].tier
                  /\ o_frames[Len(o_frames)].model = o_decision.model
                  /\ o_frames[Len(o_frames)].type = o_decision.query_type
                  /\ Cardinality(FramesOfCurrent) = o_chunks + 1
    /\ (CurrentProcessed /\ o_text = <<>>) =>
          /\ Cardinality(FramesOfCurrent) = 1
          /\ \A i \in FramesOfCurrent : o_frames[i].kind = "error"
          /\ GenCallsOfCurrent = {}
          /\ \A i \in 1..Len(o_searches) : o_searches[i].msg # o_cur
          /\ o_error = None
    /\ (o_mode = "ws" /\ o_pc \in {"simple", "search", "gen", "stream"}) =>
          DoneFramesOfCurrent = {}

\* An empty message was answered with an error frame, and the next message,
\* which the template missed, was streamed and closed with the done frame of
\* the fallback decision.
C30_Witness ==
    /\ CurrentProcessed /\ o_cur = 2 /\ o_text # <<>> /\ o_tmpl = "miss"
    /\ o_frames[1] = Frame(1, "error", None, None)
    /\ o_chunks >= 2
    /\ o_frames[Len(o_frames)] = Frame(2, "done", "gemini-flash", "complex")

(***************************************************************************)
(* stream with scheduling: the worker thread keeps running (the provider   *)
(* call returns or raises, the iterator is finite) and the event loop      *)
(* keeps resuming the consumer.                                            *)
(***************************************************************************)

WorkerStep ==
    \/ WorkerBuild \/ WorkerChunk \/ WorkerRaise \/ WorkerEnd \/ WorkerExcept
    \/ WorkerFinally

ConsumerStep ==
    \/ ConsumerGet \/ ConsumerEmpty \/ ConsumerResume \/ ConsumerClose

SpecStreamFair ==
    /\ SpecStream
    /\ WF_vars(StreamStart)
    /\ WF_vars(WorkerStep)
    /\ WF_vars(ConsumerStep)

\* The number of terminal markers among the first n items the worker put.
RECURSIVE DoneCount(_)
DoneCount(n) ==
    IF n = 0 THEN 0 ELSE (IF enq[n] = DONE THEN 1 ELSE 0) + DoneCount(n - 1)

\* The worker puts DONE as its last item and only then.
DoneOnceAndLast ==
    /\ wpc = "done" => /\ enq # <<>> /\ enq[Len(enq)] = DONE
                       /\ DoneCount(Len(enq)) = 1
    /\ wpc # "done" => DoneCount(Len(enq)) = 0

\* The loop of stream has ended: DONE was read, the caller closed the
\* generator, or _build_params raised before the loop.
StreamTerminated == cpc \in {"done", "closed", "raised"}

\* C28: in every run of the worker (normal end, or a failure at any point,
\* model construction included) DONE is enqueued exactly once and is the
\* last item enqueued; and as the provider call returns or raises, the
\* consumer loop eventually terminates.
C28_DoneOnceThenConsumerTerminates ==
    /\ []DoneOnceAndLast
    /\ <>StreamTerminated

\* Model construction failed; the worker put the error fragment and DONE,
\* and the consumer read DONE and left its loop.
C28_Witness ==
    /\ raised /\ nchunks = 0 /\ wpc = "done" /\ cpc = "done"
    /\ enq = <<ErrorFragment, DONE>> /\ queue = <<>>

(***************************************************************************)
(* _run_faiss: positions of the index to records                           *)
(***************************************************************************)

\* The lowest id of the food table.
LowestId == CHOOSE i \in DOMAIN db : \A j \in DOMAIN db : i <= j

\* The places of sem_ind whose position is a match and whose id has a row.
FoundPlaces ==
    {i \in 1..Len(sem_ind) :
        sem_ind[i] >= 0 /\ (sem_ind[i] + LowestId) \in DOMAIN db}

\* C26: _run_faiss maps position p to id p + (lowest id), so position 0 is
\* the lowest id; drops the positions reported as no match (negative) and
\* the ids without a row; and returns the records in the order of the
\* positions.
C26_PositionsToRecordsInOrder ==
    sem_pc = "ok" =>
        /\ Len(sem_res) = Cardinality(FoundPlaces)
        /\ \A i \in FoundPlaces :
              LET n == Cardinality({j \in FoundPlaces : j <= i}) IN
              sem_res[n].id = sem_ind[i] + LowestId

\* The index returned position 0, a no-match and the position past the last
\* row: only the record with the lowest id comes back.
C26_Witness ==
    /\ sem_pc = "ok" /\ Len(sem_ind) = 3
    /\ \E i, j, k \in 1..3 :
          sem_ind[i] = 0 /\ sem_ind[j] = -1 /\ sem_ind[k] = NTotal - 1
    /\ Len(sem_res) = 1 /\ sem_res[1].id = 1

(***************************************************************************)
(* The per-city caches: _engines / _session_factories (db/session.py       *)
(* _get_engine, get_session_factory) and _faiss_cache (core/search.py      *)
(* _load_faiss), used from executor threads.  All threads ask for the same *)
(* city.  An instance is a number from 1; 0 is "no entry".  No lock guards *)
(* the test "city not in cache" and the stores that follow it.             *)
(***************************************************************************)

Threads == 1..MaxThreads

\* get_session_factory on an entry of _engines whose _session_factories
\* entry is not stored yet raises KeyError; recorded as instance 0.
KeyErrorRaised == 0

InitCache ==
    /\ x_op \in [Threads -> {"engine", "faiss"}]
    /\ x_pc = [t \in Threads |-> "check"]
    /\ x_left = [t \in Threads |-> MaxAccesses]
    /\ x_engines = 0 /\ x_factories = 0 /\ x_faiss = 0
    /\ x_mine = [t \in Threads |-> 0]
    /\ x_created = [engine |-> 0, faiss |-> 0]
    /\ x_ret = [t \in Threads |-> <<>>]
    /\ BaseIdle /\ ExtIdle /\ FaissIdle /\ IntentIdle /\ SimpleIdle

\* if city not in _engines: / if city not in self._faiss_cache:
XCheck(t) ==
    /\ x_pc[t] = "check" /\ x_left[t] > 0
    /\ LET cached == IF x_op[t] = "engine" THEN x_engines ELSE x_faiss IN
          x_pc' = [x_pc EXCEPT ![t] = IF cached = 0 THEN "create" ELSE "return"]
    /\ UNCHANGED <<x_op, x_left, x_engines, x_factories, x_faiss, x_mine,
                   x_created, x_ret>>
    /\ UNCHANGED <<baseVars, extVars, faissVars, intentVars, simpleVars>>

\* engine = create_engine(...) / faiss.read_index(str(path))
XCreate(t) ==
    /\ x_pc[t] = "create"
    /\ x_created' = [x_created EXCEPT ![x_op[t]] = @ + 1]
    /\ x_mine' = [x_mine EXCEPT ![t] = x_created[x_op[t]] + 1]
    /\ x_pc' = [x_pc EXCEPT ![t] = "store"]
    /\ UNCHANGED <<x_op, x_left, x_engines, x_factories, x_faiss, x_ret>>
    /\ UNCHANGED <<baseVars, extVars, faissVars, intentVars, simpleVars>>

\* _engines[city] = engine / self._faiss_cache[city] = <the index read>
XStore(t) ==
    /\ x_pc[t] = "store"
    /\ IF x_op[t] = "engine"
       THEN /\ x_engines' = x_mine[t]
            /\ x_pc' = [x_pc EXCEPT ![t] = "store_factory"]
            /\ UNCHANGED x_faiss
       ELSE /\ x_faiss' = x_mine[t]
            /\ x_pc' = [x_pc EXCEPT ![t] = "return"]
            /\ UNCHANGED x_engines
    /\ UNCHANGED <<x_op, x_left, x_factories, x_mine, x_created, x_ret>>
    /\ UNCHANGED <<baseVars, extVars, faissVars, intentVars, simpleVars>>

\* _session_factories[city] = sessionmaker(bind=engine, ...)
XStoreFactory(t) ==
    /\ x_pc[t] = "store_factory"
    /\ x_factories' = x_mine[t]
    /\ x_pc' = [x_pc EXCEPT ![t] = "return"]
    /\ UNCHANGED <<x_op, x_left, x_engines, x_faiss, x_mine, x_created, x_ret>>
    /\ UNCHANGED <<baseVars, extVars, faissVars, intentVars, simpleVars>>

\* return _session_factories[city] (after return _engines[city]) /
\* return self._faiss_cache[city]
XReturn(t) ==
    /\ x_pc[t] = "return"
    /\ x_ret' = [x_ret EXCEPT ![t] =
                    Append(@, IF x_op[t] = "engine" THEN x_factories ELSE x_faiss)]
    /\ x_left' = [x_left EXCEPT ![t] = @ - 1]
    /\ x_pc' = [x_pc EXCEPT ![t] = "check"]
    /\ UNCHANGED <<x_op, x_engines, x_factories, x_faiss, x_mine, x_created>>
    /\ UNCHANGED <<baseVars, extVars, faissVars, intentVars, simpleVars>>

NextCache ==
    \E t \in Threads :
        \/ XCheck(t) \/ XCreate(t) \/ XStore(t) \/ XStoreFactory(t)
        \/ XReturn(t)

SpecCache == InitCache /\ [][NextCache]_vars

\* C27: the engine with its session factory and the index of a city are
\* created at most once, and every access returns the one cached instance,
\* also when threads access the city concurrently for the first time.
C27_CreatedOnceAndCached ==
    /\ x_created.engine <= 1
    /\ x_created.faiss <= 1
    /\ \A t \in Threads : \A i \in 1..Len(x_ret[t]) : x_ret[t][i] = 1

(***************************************************************************)
(* SimpleQueryHandler.parse_intent (core/simple.py).  A query is a         *)
(* sequence of segments as for the router; the regular expressions are     *)
(* spelled out on segments.  Of each alternation one phrase is in the      *)
(* alphabet ("vs", "gia bao nhieu", "toi muon an", "goi y").               *)
(***************************************************************************)
PHO        == [s |-> "pho",           len |-> 3]
GIA        == [s |-> "gia bao nhieu", len |-> 13]
WANT       == [s |-> "toi muon an",   len |-> 11]
GOI_Y      == [s |-> "goi y",         len |-> 5]
DOT        == [s |-> ".",             len |-> 1]
SO_SANH_UP == [s |-> "SO SANH",       len |-> 7]

IntentWords == {PHO, SO_SANH, SO_SANH_UP, VS, GIA, WANT, GOI_Y, DOT}

\* The words of ws joined by single spaces.
RECURSIVE Join(_)
Join(ws) ==
    IF Len(ws) <= 1 THEN ws ELSE <<Head(ws), SP>> \o Join(Tail(ws))

\* str.lower()
Lower(q) == [i \in DOMAIN q |-> IF q[i] = SO_SANH_UP THEN SO_SANH ELSE q[i]]

\* The characters of a segment up to its first whitespace.
FirstWord(t) ==
    CASE t = SO_SANH -> [s |-> "so",  len |-> 2]
      [] t = GIA     -> [s |-> "gia", len |-> 3]
      [] t = WANT    -> [s |-> "toi", len |-> 3]
      [] t = GOI_Y   -> [s |-> "goi", len |-> 3]
      [] OTHER       -> t

HasSpace(t) == t \in {SO_SANH, GIA, WANT, GOI_Y}

\* (.+?)(?:\s|$) at segment m, which is not whitespace: the characters up
\* to the next whitespace or the end.
RECURSIVE WordFrom(_, _)
WordFrom(q, m) ==
    IF m > Len(q) \/ q[m] = SP THEN <<>>
    ELSE IF HasSpace(q[m]) THEN <<FirstWord(q[m])>>
    ELSE <<q[m]>> \o WordFrom(q, m + 1)

\* The first segment at or after m that is not whitespace (0 if none).
RECURSIVE SkipSpaces(_, _)
SkipSpaces(q, m) ==
    IF m > Len(q) THEN 0 ELSE IF q[m] = SP THEN SkipSpaces(q, m + 1) ELSE m

\* The least element of a non-empty set of numbers.
Least(S) == CHOOSE i \in S : \A j \in S : i <= j

\* A tuple (intent, keyword, second keyword); None of the second keyword is
\* the empty sequence.  A parser that finds no match returns <<>> (None).
IntentTuple(intent, kw, kw2) == [intent |-> intent, kw |-> kw, kw2 |-> kw2]

\* so sanh\s+(.+?)\s+(?:va|voi|vs)\s+(.+?)(?:\s|$): the places (i, j) of
\* "so sanh" and of the connective of a match.
CompareMatches(q) ==
    {p \in (1..Len(q)) \X (1..Len(q)) :
        /\ q[p[1]] = SO_SANH /\ p[1] + 1 <= Len(q) /\ q[p[1] + 1] = SP
        /\ p[2] >= p[1] + 4
        /\ q[p[2]] = VS /\ q[p[2] - 1] = SP
        /\ p[2] + 2 <= Len(q) /\ q[p[2] + 1] = SP}

TryCompare(q) ==
    IF CompareMatches(q) = {} THEN <<>>
    ELSE LET i == Least({p[1] : p \in CompareMatches(q)})
             j == Least({p[2] : p \in {r \in CompareMatches(q) : r[1] = i}})
         IN <<IntentTuple("price_compare", Strip(SubSeq(q, i + 2, j - 2)),
                          WordFrom(q, SkipSpaces(q, j + 1)))>>

\* (.+?)\s+(?:gia bao nhieu|bao nhieu tien|gia the nao)
PriceMatches(q) == {j \in 3..Len(q) : q[j] = GIA /\ q[j - 1] = SP}

TryPrice(q) ==
    IF PriceMatches(q) = {} THEN <<>>
    ELSE <<IntentTuple("price_query",
                       Strip(SubSeq(q, 1, Least(PriceMatches(q)) - 2)), <<>>)>>

\* (?:toi muon an|...)\s+(.+?)(?:\s*$|\.)
WantMatches(q) ==
    {i \in 1..(Len(q) - 2) : q[i] = WANT /\ q[i + 1] = SP}

\* (.+?)(?:\s*$|\.) from segment m: up to the first "." after m, or the end.
RECURSIVE UpToDot(_, _)
UpToDot(q, m) ==
    IF m > Len(q) THEN <<>>
    ELSE <<q[m]>> \o (IF m + 1 <= Len(q) /\ q[m + 1] = DOT THEN <<>>
                      ELSE UpToDot(q, m + 1))

TryWant(q) ==
    IF WantMatches(q) = {} THEN <<>>
    ELSE LET i == Least(WantMatches(q)) IN
         <<IntentTuple("want_to_eat",
                       Strip(UpToDot(q, SkipSpaces(q, i + 1))), <<>>)>>

\* re.search(goi y|suggest|recommend); the keyword is the word after the
\* first "goi y" that is followed by whitespace and a word, "" if none.
SuggestMatches(q) ==
    {i \in 1..(Len(q) - 2) : q[i] = GOI_Y /\ q[i + 1] = SP}

TrySuggest(q) ==
    IF \A i \in 1..Len(q) : q[i] # GOI_Y THEN <<>>
    ELSE <<IntentTuple("suggest",
                       IF SuggestMatches(q) = {} THEN <<>>
                       ELSE WordFrom(q, SkipSpaces(q, Least(SuggestMatches(q)) + 1)),
                       <<>>)>>

\* a or b for an Optional[tuple]
OrElse(a, b) == IF a # <<>> THEN a ELSE b

\* q[:40] of the unknown branch is not cut here: the queries are shorter.
Unknown(q) == <<IntentTuple("unknown", q, <<>>)>>

\* Mutant: the price question is tried before the comparison.
ParseIntentPriceFirst(query) ==
    LET q == Strip(Lower(query)) IN
    OrElse(TryPrice(q), OrElse(TryCompare(q), OrElse(TryWant(q),
        OrElse(TrySuggest(q), Unknown(q)))))[1]

ParseIntent(query) ==
    LET q == Strip(Lower(query)) IN
    OrElse(TryCompare(q), OrElse(TryPrice(q), OrElse(TryWant(q),
        OrElse(TrySuggest(q), Unknown(q)))))[1]

NoIntent == IntentTuple(None, <<>>, <<>>)

InitIntent ==
    /\ \E n \in 0..MaxWords : \E ws \in [1..n -> IntentWords] :
          \E lead, trail \in {<<>>, <<SP>>} :
              i_query = lead \o Join(ws) \o trail
    /\ i_pc = "call" /\ i_result = NoIntent
    /\ BaseIdle /\ ExtIdle /\ FaissIdle /\ SimpleIdle /\ CacheIdle

\* intent, kw, kw2 = self.parse_intent(query)
CallParseIntent ==
    /\ i_pc = "call"
    /\ i_result' = ParseIntent(i_query)
    /\ i_pc' = "returned"
    /\ UNCHANGED i_query
    /\ UNCHANGED <<baseVars, extVars, faissVars, simpleVars, cacheVars>>

NextIntent == CallParseIntent

SpecIntent == InitIntent /\ [][NextIntent]_vars

\* The patterns, on the lower-cased and stripped query.
LooksLikeCompare == CompareMatches(Strip(Lower(i_query))) # {}
LooksLikePrice   == PriceMatches(Strip(Lower(i_query))) # {}
LooksLikeWant    == WantMatches(Strip(Lower(i_query))) # {}
LooksLikeSuggest == \E i \in 1..Len(i_query) : Lower(i_query)[i] = GOI_Y

\* C21: parse_intent gives the intent of the first pattern that matches, in
\* the order comparison, price question, want to eat, suggestion, and
\* unknown when none matches; every text gets exactly one of the five.
C21_FirstMatchingPatternWins ==
    i_pc = "returned" =>
        /\ i_result.intent \in {"price_compare", "price_query", "want_to_eat",
                                "suggest", "unknown"}
        /\ LooksLikeCompare => i_result.intent = "price_compare"
        /\ (~LooksLikeCompare /\ LooksLikePrice)
              => i_result.intent = "price_query"
        /\ (~LooksLikeCompare /\ ~LooksLikePrice /\ LooksLikeWant)
              => i_result.intent = "want_to_eat"
        /\ (~LooksLikeCompare /\ ~LooksLikePrice /\ ~LooksLikeWant
            /\ LooksLikeSuggest) => i_result.intent = "suggest"
        /\ (~LooksLikeCompare /\ ~LooksLikePrice /\ ~LooksLikeWant
            /\ ~LooksLikeSuggest) => i_result.intent = "unknown"

\* "SO SANH gia bao nhieu vs goi y" matches the comparison, the price
\* question and the suggestion, and is parsed as a comparison.
C21_Witness ==
    /\ i_pc = "returned"
    /\ i_query = <<SO_SANH_UP, SP, GIA, SP, VS, SP, GOI_Y>>
    /\ LooksLikeCompare /\ LooksLikePrice /\ LooksLikeSuggest
    /\ i_result = IntentTuple("price_compare", <<GIA>>,
                              <<[s |-> "goi", len |-> 3]>>)

(***************************************************************************)
(* SimpleQueryHandler.handle and its templates (core/simple.py).  A record *)
(* of a result set is kept as its two prices; the search callback returns  *)
(* any result set of at most `limit` records.                              *)
(***************************************************************************)
FoodItem(mn, mx) == [gia_min |-> mn, gia_max |-> mx]

\* no price; only an upper price; one price; a price range
PriceKinds ==
    {FoodItem(0, 0), FoodItem(0, 30000), FoodItem(20000, 20000),
     FoodItem(40000, 60000)}

Smaller(a, b) == IF a < b THEN a ELSE b

ResultSets(limit, bound) ==
    UNION {[1..n -> PriceKinds] : n \in 0..Smaller(limit, bound)}

SimpleQueries ==
    {<<WANT, SP, PHO>>, <<PHO, SP, GIA>>,
     <<SO_SANH, SP, PHO, SP, VS, SP, DOT>>,
     <<GOI_Y, SP, PHO>>, <<GOI_Y>>, <<PHO>>}

Hours == {5, 6, 10, 14, 17, 21}

\* QueryRouter.get_meal_time
GetMealTime(hour) ==
    IF 6 <= hour /\ hour < 10 THEN <<[s |-> "Bua sang", len |-> 8]>>
    ELSE IF 10 <= hour /\ hour < 14 THEN <<[s |-> "Bua trua", len |-> 8]>>
    ELSE IF 14 <= hour /\ hour < 17 THEN <<[s |-> "Xe chieu", len |-> 8]>>
    ELSE IF 17 <= hour /\ hour < 21 THEN <<[s |-> "Bua toi", len |-> 7]>>
    ELSE <<[s |-> "An dem", len |-> 6]>>

\* lst[:n]
Take(lst, n) == SubSeq(lst, 1, Smaller(n, Len(lst)))

\* r.gia_min > 1 or r.gia_max > 1
IsPriced(r) == r.gia_min > 1 \/ r.gia_max > 1

SetMin(S) == CHOOSE x \in S : \A y \in S : x <= y
SetMax(S) == CHOOSE x \in S : \A y \in S : x >= y

\* _fmt: "Chua co gia", "{mx//1000}k" or "{mn//1000}k-{mx//1000}k"
Fmt(mn, mx) ==
    IF mn <= 1 /\ mx <= 1 THEN [k |-> "none", a |-> 0, b |-> 0]
    ELSE IF mn = mx THEN [k |-> "one", a |-> mx \div 1000, b |-> mx \div 1000]
    ELSE [k |-> "range", a |-> mn \div 1000, b |-> mx \div 1000]

FmtLines(lst) == [i \in DOMAIN lst |-> Fmt(lst[i].gia_min, lst[i].gia_max)]

Returns(text, items) == [text |-> text, items |-> items, handled |-> TRUE]
Raises(e)            == [exc |-> e]
NoOut                == [exc |-> None]

\* _resp_want
RespWant(kw, items) ==
    IF items = <<>> THEN [kind |-> "want_none", kw |-> kw]
    ELSE [kind |-> "want", kw |-> kw, count |-> Len(items),
          lines |-> FmtLines(Take(items, 5))]

\* _resp_price, or the name of the exception it raises: min() and max() of
\* an empty generator raise ValueError.
RespPrice(kw, items) ==
    LET priced == Take(SelectSeq(items, IsPriced), 5)
        mins   == {priced[i].gia_min : i \in {j \in DOMAIN priced : priced[j].gia_min > 1}}
        maxs   == {priced[i].gia_max : i \in {j \in DOMAIN priced : priced[j].gia_max > 1}}
    IN  IF priced = <<>> THEN [kind |-> "no_price", kw |-> kw]
        ELSE IF mins = {} \/ maxs = {} THEN Raises("ValueError")
        ELSE [kind |-> "price", kw |-> kw, lines |-> FmtLines(priced),
              lo |-> SetMin(mins), hi |-> SetMax(maxs),
              spread |-> Fmt(SetMin(mins), SetMax(maxs))]

\* sum(r.gia_min + r.gia_max for r in lst if priced): twice the sum that
\* avg() divides.
RECURSIVE PricedSum(_)
PricedSum(lst) ==
    IF lst = <<>> THEN 0
    ELSE (IF IsPriced(Head(lst)) THEN Head(lst).gia_min + Head(lst).gia_max
          ELSE 0) + PricedSum(Tail(lst))

\* avg(i1) < avg(i2), where avg(lst) is PricedSum(lst) / 2 / max(len(lst), 1);
\* the quotients are compared exactly by cross multiplication (the floats
\* of two different quotients of this size differ).
AvgLess(i1, i2) ==
    PricedSum(i1) * (IF Len(i2) = 0 THEN 1 ELSE Len(i2))
        < PricedSum(i2) * (IF Len(i1) = 0 THEN 1 ELSE Len(i1))

\* blk
Blk(lst) ==
    IF lst # <<>> THEN Fmt(lst[1].gia_min, lst[1].gia_max)
    ELSE [k |-> "N/A", a |-> 0, b |-> 0]

\* _resp_compare; winner is the side whose keyword the reply names as
\* cheaper, 0 when the reply has no such sentence.
RespCompare(i1, i2) ==
    [kind |-> "compare", blk1 |-> Blk(i1), blk2 |-> Blk(i2),
     winner |-> IF i1 # <<>> /\ i2 # <<>>
                THEN (IF AvgLess(i1, i2) THEN 1 ELSE 2)
                ELSE 0]

\* _resp_suggest
RespSuggest(kw, items, meal) ==
    IF items = <<>> THEN [kind |-> "suggest_none"]
    ELSE [kind |-> "suggest", kw |-> kw, meal |-> meal,
          lines |-> FmtLines(Take(items, 3))]

\* A call of the search callback.
SearchFn(kw, limit) ==
    [kw |-> kw, limit |-> limit, returned |-> FALSE, items |-> <<>>]

InitSimple ==
    /\ t_query \in SimpleQueries
    /\ t_pc = "handle" /\ t_intent = NoIntent /\ t_calls = <<>>
    /\ t_out = NoOut
    /\ BaseIdle /\ ExtIdle /\ FaissIdle /\ IntentIdle /\ CacheIdle

SimpleRest == <<baseVars, extVars, faissVars, intentVars, cacheVars>>

\* handle: return "", [], False
HandleUnknown ==
    /\ t_pc = "handle"
    /\ ParseIntent(t_query).intent
          \notin {"want_to_eat", "price_query", "price_compare", "suggest"}
    /\ t_intent' = ParseIntent(t_query)
    /\ t_out' = [text |-> [kind |-> "empty"], items |-> <<>>, handled |-> FALSE]
    /\ t_pc' = "returned"
    /\ UNCHANGED <<t_query, t_calls>>
    /\ UNCHANGED SimpleRest

\* handle, _handle_want up to the await
HandleWant ==
    /\ t_pc = "handle"
    /\ ParseIntent(t_query).intent = "want_to_eat"
    /\ t_intent' = ParseIntent(t_query)
    /\ t_calls' = <<SearchFn(t_intent'.kw, 10)>>
    /\ t_pc' = "await"
    /\ UNCHANGED <<t_query, t_out>>
    /\ UNCHANGED SimpleRest

\* handle, _handle_price up to the await
HandlePrice ==
    /\ t_pc = "handle"
    /\ ParseIntent(t_query).intent = "price_query"
    /\ t_intent' = ParseIntent(t_query)
    /\ t_calls' = <<SearchFn(t_intent'.kw, 8)>>
    /\ t_pc' = "await"
    /\ UNCHANGED <<t_query, t_out>>
    /\ UNCHANGED SimpleRest

\* handle, _handle_compare up to the await: gather starts both lookups
HandleCompare ==
    /\ t_pc = "handle"
    /\ ParseIntent(t_query).intent = "price_compare"
    /\ t_intent' = ParseIntent(t_query)
    /\ t_calls' = <<SearchFn(t_intent'.kw, 5), SearchFn(t_intent'.kw2, 5)>>
    /\ t_pc' = "await"
    /\ UNCHANGED <<t_query, t_out>>
    /\ UNCHANGED SimpleRest

\* handle, _handle_suggest up to the await; the lookup is for the keyword,
\* or for the meal of the hour when there is no keyword; the meal is kept
\* in the call for the reply.
HandleSuggest ==
    /\ t_pc = "handle"
    /\ ParseIntent(t_query).intent = "suggest"
    /\ t_intent' = ParseIntent(t_query)
    /\ \E hour \in Hours :
          t_calls' = <<[SearchFn(IF t_intent'.kw # <<>> THEN t_intent'.kw
                                 ELSE GetMealTime(hour), 8)
                        EXCEPT !.kw = @] @@ [meal |-> GetMealTime(hour)]>>
    /\ t_pc' = "await"
    /\ UNCHANGED <<t_query, t_out>>
    /\ UNCHANGED SimpleRest

\* The search callback of one pending call returns its result set.
SearchReturn ==
    /\ t_pc = "await"
    /\ \E c \in DOMAIN t_calls :
          /\ ~t_calls[c].returned
          /\ \E items \in ResultSets(t_calls[c].limit,
                                     IF Len(t_calls) = 2 THEN MaxCmpItems
                                     ELSE MaxItems) :
                t_calls' = [t_calls EXCEPT ![c].returned = TRUE,
                                           ![c].items = items]
    /\ UNCHANGED <<t_query, t_pc, t_intent, t_out>>
    /\ UNCHANGED SimpleRest

AllReturned == \A c \in DOMAIN t_calls : t_calls[c].returned

\* _handle_want after the await
RespondWant ==
    /\ t_pc = "await" /\ AllReturned /\ t_intent.intent = "want_to_eat"
    /\ t_out' = Returns(RespWant(t_intent.kw, t_calls[1].items), t_calls[1].items)
    /\ t_pc' = "returned"
    /\ UNCHANGED <<t_query, t_intent, t_calls>>
    /\ UNCHANGED SimpleRest

\* _handle_price after the await
RespondPrice ==
    /\ t_pc = "await" /\ AllReturned /\ t_intent.intent = "price_query"
    /\ LET r == RespPrice(t_intent.kw, t_calls[1].items) IN
          IF r = Raises("ValueError")
          THEN t_out' = r /\ t_pc' = "raised"
          ELSE t_out' = Returns(r, t_calls[1].items) /\ t_pc' = "returned"
    /\ UNCHANGED <<t_query, t_intent, t_calls>>
    /\ UNCHANGED SimpleRest

\* _handle_compare after the gather
RespondCompare ==
    /\ t_pc = "await" /\ AllReturned /\ t_intent.intent = "price_compare"
    /\ t_out' = Returns(RespCompare(t_calls[1].items, t_calls[2].items),
                        t_calls[1].items \o t_calls[2].items)
    /\ t_pc' = "returned"
    /\ UNCHANGED <<t_query, t_intent, t_calls>>
    /\ UNCHANGED SimpleRest

\* _handle_suggest after the await
RespondSuggest ==
    /\ t_pc = "await" /\ AllReturned /\ t_intent.intent = "suggest"
    /\ t_out' = Returns(RespSuggest(t_intent.kw, t_calls[1].items,
                                    t_calls[1].meal), t_calls[1].items)
    /\ t_pc' = "returned"
    /\ UNCHANGED <<t_query, t_intent, t_calls>>
    /\ UNCHANGED SimpleRest

NextSimple ==
    \/ HandleUnknown \/ HandleWant \/ HandlePrice \/ HandleCompare
    \/ HandleSuggest \/ SearchReturn
    \/ RespondWant \/ RespondPrice \/ RespondCompare \/ RespondSuggest

SpecSimple == InitSimple /\ [][NextSimple]_vars

HandleEnded == t_pc \in {"returned", "raised"}

\* The records of a result set that have a known price.
Known(items) == SelectSeq(items, IsPriced)

\* C22: handle returns was_handled = false exactly for the Unknown intent,
\* then with empty text and an empty result set and without a call of the
\* search callback; for every other intent it returns was_handled = true,
\* also when the callback returns no records.
C22_UnhandledIffUnknown ==
    HandleEnded =>
        IF t_intent.intent = "unknown"
        THEN /\ t_pc = "returned"
             /\ t_out = [text |-> [kind |-> "empty"], items |-> <<>>,
                         handled |-> FALSE]
             /\ t_calls = <<>>
        ELSE /\ t_pc = "returned"
             /\ t_out.handled

\* C23: a comparison issues its two lookups, each with limit 5, before
\* either has returned, and its reply names a cheaper side only if both
\* sides have at least one record with a known price.
C23_WinnerOnlyWithBothSidesPriced ==
    (t_intent.intent = "price_compare" /\ t_pc # "handle") =>
        /\ Len(t_calls) = 2
        /\ t_calls[1].limit = 5 /\ t_calls[2].limit = 5
        /\ t_calls[1].kw = t_intent.kw /\ t_calls[2].kw = t_intent.kw2
        /\ t_pc = "returned" =>
              (t_out.text.winner # 0 =>
                  /\ Known(t_calls[1].items) # <<>>
                  /\ Known(t_calls[2].items) # <<>>)

\* mean1 < mean2 for the means of (min + max) / 2 over the records with a
\* known price, both sets being non-empty.
KnownMeanLess(i1, i2) ==
    PricedSum(i1) * Len(Known(i2)) < PricedSum(i2) * Len(Known(i1))

\* C24: when both sides of a comparison have records with a known price,
\* the side named cheaper is the one with the strictly lower mean of
\* (min + max) / 2 over its records with a known price, and no side is
\* named when the two means are equal.
C24_CheaperSideHasLowerKnownMean ==
    (/\ t_intent.intent = "price_compare" /\ t_pc = "returned"
     /\ Known(t_calls[1].items) # <<>> /\ Known(t_calls[2].items) # <<>>) =>
        LET i1 == t_calls[1].items
            i2 == t_calls[2].items
        IN  t_out.text.winner =
                IF KnownMeanLess(i1, i2) THEN 1
                ELSE IF KnownMeanLess(i2, i1) THEN 2
                ELSE 0

\* C25: for a price question handle returns for every result set of the
\* callback: the reply says that no price is known when no record has a
\* known price, and otherwise has at most 5 price lines and a spread from
\* the smallest known minimum to the largest known maximum of all records
\* with a known price.
C25_PriceReplyForEveryResultSet ==
    (t_intent.intent = "price_query" /\ HandleEnded) =>
           (/\ t_pc = "returned"
            /\ LET known == Known(t_calls[1].items)
                   mins  == {known[i].gia_min : i \in {j \in DOMAIN known : known[j].gia_min > 1}}
                   maxs  == {known[i].gia_max : i \in {j \in DOMAIN known : known[j].gia_max > 1}}
               IN  IF known = <<>> THEN t_out.text.kind = "no_price"
                   ELSE /\ t_out.text.kind = "price"
                        /\ Len(t_out.text.lines) <= 5
                        /\ mins # {} => t_out.text.lo = SetMin(mins)
                        /\ maxs # {} => t_out.text.hi = SetMax(maxs))

====
